---- MODULE Spec2Model ----
(***************************************************************************)
(* A model of software-and-algorithms-cpp: the Hungarian assignment        *)
(* solver (hungarian.h), the Knuth-Morris-Pratt search                     *)
(* (knuth_morris_pratt.h) and the Damerau-Levenshtein distance             *)
(* (damerau_levenshtein.h), each as a state machine whose steps are the    *)
(* calls and loop iterations of the source.                                *)
(*                                                                         *)
(* Costs are doubles in the source and integers here: every operation the  *)
(* solver performs on them (comparison, subtraction, addition) is exact on *)
(* the small integers of the model.                                        *)
(***************************************************************************)
EXTENDS Integers, Sequences, FiniteSets, TLC

\* ------------------------------------------------------------------ bounds
\* Largest number of rows and of columns of a generated cost matrix.
MaxDim == 3
\* Largest number of entries (rows * cols) of a generated cost matrix.
MaxCells == 9
\* How many times execute() is called on one Hungarian instance.
MaxExecutes == 2
\* The entries of a generated cost matrix ("entries of any sign").
CostValues == {-1, 0, 1}

\* ------------------------------------------------------- program constants
\* Hungarian::UNASSIGNED, std::numeric_limits<uint32_t>::max(): 2^32 - 1 in
\* the source, the largest integer of the model checker here. All the code
\* uses of it is that it differs from, and is larger than, every index.
UNASSIGNED == 2147483647
\* Hungarian::POSITIVE_INFINITY, std::numeric_limits<double>::max(): larger
\* than every cost, label and slack the model can produce.
POSITIVE_INFINITY == 1000000000

\* ---------------------------------------------------------------- helpers
Max(a, b) == IF a >= b THEN a ELSE b

SetMin(S) == CHOOSE x \in S : \A y \in S : x <= y

RECURSIVE SetSum(_, _)
\* The sum of f[x] over x in S.
SetSum(f, S) ==
  IF S = {} THEN 0
  ELSE LET x == CHOOSE y \in S : TRUE IN f[x] + SetSum(f, S \ {x})

\* ------------------------------------------------------------------ state
VARIABLES
  pc,                               \* position in Hungarian's constructor / execute
  cost_matrix,                      \* the caller's MultiArray<double, 2>
  result,                           \* the caller's uint32_t result[]
  rows_, cols_, dim_,
  cost_matrix_,
  label_by_worker_, label_by_job_,
  min_slack_by_job_, min_slack_worker_by_job_,
  match_job_by_worker_, match_worker_by_job_,
  parent_worker_by_committed_job_,
  committed_workers_,
  w_execute,                        \* execute(): uint32_t w
  w_greedy, j_greedy,               \* greedy_match(): loop counters w, j
  min_slack_worker, min_slack_job,  \* execute_phase(): locals
  min_slack_value,
  committed_job, parent_worker,     \* execute_phase(): augmenting path walk
  executes,                         \* calls of execute() so far
  phases,                           \* phases started by the current execute()
  commits,                          \* jobs committed by the current execute_phase()
  kmp_pc,                           \* position in KnuthMorrisPratt's constructor / execute
  needle,                           \* the constructor's argument
  needle_, state_transition_table_,
  haystack, index,                  \* execute()'s arguments
  state, i_execute,                 \* execute(): uint32_t state, i
  kmp_result,                       \* what execute() returned
  dl_pc,                            \* position in DamerauLevenshtein's constructor / execute
  costs,                            \* the constructor's arguments
  insert_cost_, delete_cost_, replace_cost_, swap_cost_,
  source, target,                   \* execute()'s arguments
  dl_result,                        \* what execute() returned
  rbt_pc,                           \* whether a RedBlackTree exists, and is intact
  linked,                           \* NodeType is LinkedNode<T> (else Node<T>)
  heap,                             \* the nodes allocated by new NodeType(value)
  root_, size_,
  rbt_result,                       \* what the last insert() or remove() returned
  master,                           \* the set the tests run side by side
  ma_pc,                            \* position in a MultiArray's construction / indexing
  rank,                             \* the template argument D
  initializer,                      \* the constructor's argument
  extent_, multiplier_, array_,
  view,                             \* the MultiArrayView last returned: E and index_
  indices,                          \* the indices applied so far
  element                           \* the element the last operator[] returned

hungarian_fields ==
  <<rows_, cols_, dim_, cost_matrix_, label_by_worker_, label_by_job_,
    min_slack_by_job_, min_slack_worker_by_job_, match_job_by_worker_,
    match_worker_by_job_, parent_worker_by_committed_job_, committed_workers_>>

hungarian_locals ==
  <<w_execute, w_greedy, j_greedy, min_slack_worker, min_slack_job,
    min_slack_value, committed_job, parent_worker>>

hungarian_ghost == <<executes, phases, commits>>

hungarian_vars ==
  <<pc, cost_matrix, result, hungarian_fields, hungarian_locals, hungarian_ghost>>

kmp_vars ==
  <<kmp_pc, needle, needle_, state_transition_table_, haystack, index, state,
    i_execute, kmp_result>>

dl_vars ==
  <<dl_pc, costs, insert_cost_, delete_cost_, replace_cost_, swap_cost_,
    source, target, dl_result>>

rbt_vars == <<rbt_pc, linked, heap, root_, size_, rbt_result, master>>

ma_vars ==
  <<ma_pc, rank, initializer, extent_, multiplier_, array_, view, indices, element>>

\* What a step of one component leaves alone: the other components.
not_hungarian == <<kmp_vars, dl_vars, rbt_vars, ma_vars>>

not_kmp == <<hungarian_vars, dl_vars, rbt_vars, ma_vars>>

not_dl == <<hungarian_vars, kmp_vars, rbt_vars, ma_vars>>

not_rbt == <<hungarian_vars, kmp_vars, dl_vars, ma_vars>>

not_ma == <<hungarian_vars, kmp_vars, dl_vars, rbt_vars>>

vars == <<hungarian_vars, kmp_vars, dl_vars, rbt_vars, ma_vars>>

\* ---------------------------------------------------------- the inputs
\* A rows x cols MultiArray<double, 2> holding elem[w][j].
Matrix(r, c, e) == [rows |-> r, cols |-> c, elem |-> e]

FromRows(rws) ==
  Matrix(Len(rws), Len(rws[1]),
         [w \in 0 .. Len(rws) - 1 |-> [j \in 0 .. Len(rws[1]) - 1 |-> rws[w + 1][j + 1]]])

\* The matrix of HungarianTestUnassignedJob.
TestUnassignedJob ==
  FromRows(<< <<6, 0, 7, 5, 2>>,
              <<2, 6, 2, 6, 7>>,
              <<2, 7, 2, 1, 1>>,
              <<9, 4, 7, 1, 0>> >>)

\* The matrix of HungarianTestUnassignedWorker.
TestUnassignedWorker ==
  FromRows(<< <<6, 0, 7, 5>>,
              <<2, 6, 2, 6>>,
              <<2, 7, 2, 1>>,
              <<9, 4, 7, 1>>,
              <<0, 0, 0, 0>> >>)

\* Before the constructor has run no field holds a value the code reads.
HungarianUnconstructed ==
  /\ result = <<>>
  /\ rows_ = 0 /\ cols_ = 0 /\ dim_ = 0
  /\ cost_matrix_ = <<>>
  /\ label_by_worker_ = <<>> /\ label_by_job_ = <<>>
  /\ min_slack_by_job_ = <<>> /\ min_slack_worker_by_job_ = <<>>
  /\ match_job_by_worker_ = <<>> /\ match_worker_by_job_ = <<>>
  /\ parent_worker_by_committed_job_ = <<>>
  /\ committed_workers_ = <<>>
  /\ w_execute = 0 /\ w_greedy = 0 /\ j_greedy = 0
  /\ min_slack_worker = UNASSIGNED /\ min_slack_job = UNASSIGNED
  /\ min_slack_value = POSITIVE_INFINITY
  /\ committed_job = UNASSIGNED /\ parent_worker = UNASSIGNED
  /\ executes = 0 /\ phases = 0 /\ commits = 0

\* The constructor's argument: any matrix within the bounds, the empty ones
\* (no rows, or no columns) included, or a matrix of the rectangular tests.
HungarianInit ==
  /\ pc = "construct"
  /\ \/ \E r \in 0 .. MaxDim :
          \E c \in {k \in 0 .. MaxDim : r * k <= MaxCells} :
            \E e \in [0 .. r - 1 -> [0 .. c - 1 -> CostValues]] :
              cost_matrix = Matrix(r, c, e)
     \/ cost_matrix \in {TestUnassignedJob, TestUnassignedWorker}
  /\ HungarianUnconstructed

\* No Hungarian instance: the state of the solver in the specifications of
\* the other components.
HungarianIdle ==
  /\ pc = "idle"
  /\ cost_matrix = Matrix(0, 0, <<>>)
  /\ HungarianUnconstructed

\* ------------------------------------------------------------ Hungarian
Indices == 0 .. dim_ - 1

\* Hungarian::Hungarian. cost_matrix[0] is bounds-checked by MultiArray and
\* throws std::out_of_range when the matrix has no row; a matrix with rows
\* and no column is accepted.
Construct ==
  /\ pc = "construct"
  /\ IF cost_matrix.rows = 0
       THEN /\ pc' = "error"
            /\ UNCHANGED hungarian_fields
       ELSE LET r == cost_matrix.rows
                c == cost_matrix.cols
                d == Max(r, c)
            IN /\ rows_' = r /\ cols_' = c /\ dim_' = d
               /\ cost_matrix_' =
                    [w \in 0 .. d - 1 |->
                      [j \in 0 .. d - 1 |->
                        IF w < r /\ j < c THEN cost_matrix.elem[w][j] ELSE 0]]
               /\ label_by_worker_' = [w \in 0 .. d - 1 |-> 0]
               /\ label_by_job_' = [j \in 0 .. d - 1 |-> 0]
               /\ min_slack_by_job_' = [j \in 0 .. d - 1 |-> 0]
               /\ min_slack_worker_by_job_' = [j \in 0 .. d - 1 |-> 0]
               /\ match_job_by_worker_' = [w \in 0 .. d - 1 |-> UNASSIGNED]
               /\ match_worker_by_job_' = [j \in 0 .. d - 1 |-> UNASSIGNED]
               /\ parent_worker_by_committed_job_' = [j \in 0 .. d - 1 |-> 0]
               /\ committed_workers_' = [w \in 0 .. d - 1 |-> FALSE]
               /\ pc' = "constructed"
  /\ UNCHANGED not_hungarian
  /\ UNCHANGED <<cost_matrix, result, hungarian_locals, hungarian_ghost>>

\* A call of execute(result) that first clears the matching of the call
\* before it.
Execute_ClearsMatching ==
  /\ pc \in {"constructed", "done"}
  /\ executes < MaxExecutes
  /\ executes' = executes + 1
  /\ phases' = 0 /\ commits' = 0
  /\ match_job_by_worker_' = [w \in Indices |-> UNASSIGNED]
  /\ match_worker_by_job_' = [j \in Indices |-> UNASSIGNED]
  /\ pc' = "reduce"
  /\ UNCHANGED not_hungarian
  /\ UNCHANGED <<cost_matrix, result, rows_, cols_, dim_, cost_matrix_,
                 label_by_worker_, label_by_job_, min_slack_by_job_,
                 min_slack_worker_by_job_, parent_worker_by_committed_job_,
                 committed_workers_, hungarian_locals>>

\* A call of execute(result) on the constructed instance, the first or a
\* later one.
Execute ==
  /\ pc \in {"constructed", "done"}
  /\ executes < MaxExecutes
  /\ executes' = executes + 1
  /\ phases' = 0 /\ commits' = 0
  /\ pc' = "reduce"
  /\ UNCHANGED not_hungarian
  /\ UNCHANGED <<cost_matrix, result, hungarian_fields, hungarian_locals>>

\* reduce() with the column minima taken from the matrix as it was before the
\* rows were reduced.
ReducedMatrix_ColumnsOfInput(m, d) ==
  LET rowMin(w) == SetMin({POSITIVE_INFINITY} \cup {m[w][j] : j \in 0 .. d - 1})
      byRow == [w \in 0 .. d - 1 |-> [j \in 0 .. d - 1 |-> m[w][j] - rowMin(w)]]
      colMin(j) == SetMin({POSITIVE_INFINITY} \cup {m[w][j] : w \in 0 .. d - 1})
  IN [w \in 0 .. d - 1 |-> [j \in 0 .. d - 1 |-> byRow[w][j] - colMin(j)]]

\* reduce(): the matrix after subtracting every row's minimum and then
\* every column's minimum.
ReducedMatrix(m, d) ==
  LET rowMin(w) == SetMin({POSITIVE_INFINITY} \cup {m[w][j] : j \in 0 .. d - 1})
      byRow == [w \in 0 .. d - 1 |-> [j \in 0 .. d - 1 |-> m[w][j] - rowMin(w)]]
      colMin(j) == SetMin({POSITIVE_INFINITY} \cup {byRow[w][j] : w \in 0 .. d - 1})
  IN [w \in 0 .. d - 1 |-> [j \in 0 .. d - 1 |-> byRow[w][j] - colMin(j)]]

Reduce ==
  /\ pc = "reduce"
  /\ cost_matrix_' = ReducedMatrix(cost_matrix_, dim_)
  /\ pc' = "compute_initial_feasible_solution"
  /\ UNCHANGED not_hungarian
  /\ UNCHANGED <<cost_matrix, result, rows_, cols_, dim_, label_by_worker_,
                 label_by_job_, min_slack_by_job_, min_slack_worker_by_job_,
                 match_job_by_worker_, match_worker_by_job_,
                 parent_worker_by_committed_job_, committed_workers_,
                 hungarian_locals, hungarian_ghost>>

\* compute_initial_feasible_solution(): only label_by_job_ is written.
InitialJobLabels(m, d) ==
  [j \in 0 .. d - 1 |-> SetMin({POSITIVE_INFINITY} \cup {m[w][j] : w \in 0 .. d - 1})]

ComputeInitialFeasibleSolution ==
  /\ pc = "compute_initial_feasible_solution"
  /\ label_by_job_' = InitialJobLabels(cost_matrix_, dim_)
  /\ w_greedy' = 0 /\ j_greedy' = 0
  /\ pc' = "greedy_match"
  /\ UNCHANGED not_hungarian
  /\ UNCHANGED <<cost_matrix, result, rows_, cols_, dim_, cost_matrix_,
                 label_by_worker_, min_slack_by_job_, min_slack_worker_by_job_,
                 match_job_by_worker_, match_worker_by_job_,
                 parent_worker_by_committed_job_, committed_workers_,
                 w_execute, min_slack_worker, min_slack_job, min_slack_value,
                 committed_job, parent_worker, hungarian_ghost>>

\* cost_matrix_[w][j] - label_by_worker_[w] - label_by_job_[j]
Slack(w, j) == cost_matrix_[w][j] - label_by_worker_[w] - label_by_job_[j]

\* greedy_match() without its zero-slack test.
GreedyCondition_AnySlack(w, j) ==
  /\ match_job_by_worker_[w] = UNASSIGNED
  /\ match_worker_by_job_[j] = UNASSIGNED

\* greedy_match() without its test that the job is unmatched.
GreedyCondition_JobNotTested(w, j) ==
  /\ match_job_by_worker_[w] = UNASSIGNED
  /\ Slack(w, j) = 0

\* greedy_match()'s test of the pair (w, j).
GreedyCondition(w, j) ==
  /\ match_job_by_worker_[w] = UNASSIGNED
  /\ match_worker_by_job_[j] = UNASSIGNED
  /\ Slack(w, j) = 0

\* The iteration with a match() that writes match_job_by_worker_ only.
GreedyMatchStep_WorkerOnly ==
  /\ pc = "greedy_match"
  /\ IF GreedyCondition(w_greedy, j_greedy)
       THEN /\ match_job_by_worker_' =
                 [match_job_by_worker_ EXCEPT ![w_greedy] = j_greedy]
            /\ UNCHANGED match_worker_by_job_
       ELSE UNCHANGED <<match_job_by_worker_, match_worker_by_job_>>
  /\ IF j_greedy + 1 < dim_
       THEN /\ j_greedy' = j_greedy + 1
            /\ UNCHANGED <<w_greedy, pc>>
       ELSE /\ j_greedy' = 0
            /\ w_greedy' = w_greedy + 1
            /\ pc' = IF w_greedy + 1 < dim_ THEN "greedy_match"
                     ELSE "fetch_unmatched_worker"
  /\ UNCHANGED not_hungarian
  /\ UNCHANGED <<cost_matrix, result, rows_, cols_, dim_, cost_matrix_,
                 label_by_worker_, label_by_job_, min_slack_by_job_,
                 min_slack_worker_by_job_, parent_worker_by_committed_job_,
                 committed_workers_, w_execute, min_slack_worker, min_slack_job,
                 min_slack_value, committed_job, parent_worker, hungarian_ghost>>

\* One iteration of greedy_match()'s inner loop, at (w_greedy, j_greedy).
GreedyMatchStep ==
  /\ pc = "greedy_match"
  /\ IF GreedyCondition(w_greedy, j_greedy)
       THEN /\ match_job_by_worker_' =
                 [match_job_by_worker_ EXCEPT ![w_greedy] = j_greedy]
            /\ match_worker_by_job_' =
                 [match_worker_by_job_ EXCEPT ![j_greedy] = w_greedy]
       ELSE UNCHANGED <<match_job_by_worker_, match_worker_by_job_>>
  /\ IF j_greedy + 1 < dim_
       THEN /\ j_greedy' = j_greedy + 1
            /\ UNCHANGED <<w_greedy, pc>>
       ELSE /\ j_greedy' = 0
            /\ w_greedy' = w_greedy + 1
            /\ pc' = IF w_greedy + 1 < dim_ THEN "greedy_match"
                     ELSE "fetch_unmatched_worker"
  /\ UNCHANGED not_hungarian
  /\ UNCHANGED <<cost_matrix, result, rows_, cols_, dim_, cost_matrix_,
                 label_by_worker_, label_by_job_, min_slack_by_job_,
                 min_slack_worker_by_job_, parent_worker_by_committed_job_,
                 committed_workers_, w_execute, min_slack_worker, min_slack_job,
                 min_slack_value, committed_job, parent_worker, hungarian_ghost>>

\* fetch_unmatched_worker(): the first unmatched worker, dim_ if none.
FetchUnmatchedWorker(m, d) ==
  LET unmatched == {w \in 0 .. d - 1 : m[w] = UNASSIGNED}
  IN IF unmatched = {} THEN d ELSE SetMin(unmatched)

\* execute(): w = fetch_unmatched_worker() and the test of the while loop.
FetchStep ==
  /\ pc = "fetch_unmatched_worker"
  /\ w_execute' = FetchUnmatchedWorker(match_job_by_worker_, dim_)
  /\ pc' = IF w_execute' < dim_ THEN "initialize_phase" ELSE "write_result"
  /\ UNCHANGED not_hungarian
  /\ UNCHANGED <<cost_matrix, result, hungarian_fields, w_greedy, j_greedy,
                 min_slack_worker, min_slack_job, min_slack_value,
                 committed_job, parent_worker, hungarian_ghost>>

\* initialize_phase(w) without the loop that clears
\* parent_worker_by_committed_job_.
InitializePhase_ParentsKept ==
  /\ pc = "initialize_phase"
  /\ committed_workers_' = [w \in Indices |-> w = w_execute]
  /\ min_slack_by_job_' = [j \in Indices |-> Slack(w_execute, j)]
  /\ min_slack_worker_by_job_' = [j \in Indices |-> w_execute]
  /\ phases' = phases + 1
  /\ commits' = 0
  /\ pc' = "select"
  /\ UNCHANGED not_hungarian
  /\ UNCHANGED <<cost_matrix, result, rows_, cols_, dim_, cost_matrix_,
                 label_by_worker_, label_by_job_, match_job_by_worker_,
                 match_worker_by_job_, parent_worker_by_committed_job_,
                 hungarian_locals, executes>>

\* initialize_phase(w)
InitializePhase ==
  /\ pc = "initialize_phase"
  /\ committed_workers_' = [w \in Indices |-> w = w_execute]
  /\ parent_worker_by_committed_job_' = [j \in Indices |-> UNASSIGNED]
  /\ min_slack_by_job_' = [j \in Indices |-> Slack(w_execute, j)]
  /\ min_slack_worker_by_job_' = [j \in Indices |-> w_execute]
  /\ phases' = phases + 1
  /\ commits' = 0
  /\ pc' = "select"
  /\ UNCHANGED not_hungarian
  /\ UNCHANGED <<cost_matrix, result, rows_, cols_, dim_, cost_matrix_,
                 label_by_worker_, label_by_job_, match_job_by_worker_,
                 match_worker_by_job_, hungarian_locals, executes>>

RECURSIVE MinSlackScan_LastTie(_, _)
\* The scan with <= for <: among equal slacks the last job wins.
MinSlackScan_LastTie(j, best) ==
  IF j >= dim_ THEN best
  ELSE IF /\ parent_worker_by_committed_job_[j] = UNASSIGNED
          /\ min_slack_by_job_[j] <= best.value
         THEN MinSlackScan_LastTie(j + 1, [worker |-> min_slack_worker_by_job_[j],
                                           job |-> j,
                                           value |-> min_slack_by_job_[j]])
         ELSE MinSlackScan_LastTie(j + 1, best)

RECURSIVE MinSlackScan_FirstUncommitted(_, _)
\* The scan that keeps the first uncommitted job whatever its min-slack.
MinSlackScan_FirstUncommitted(j, best) ==
  IF j >= dim_ THEN best
  ELSE IF /\ parent_worker_by_committed_job_[j] = UNASSIGNED
          /\ best.job = UNASSIGNED
         THEN MinSlackScan_FirstUncommitted(j + 1,
                [worker |-> min_slack_worker_by_job_[j], job |-> j,
                 value |-> min_slack_by_job_[j]])
         ELSE MinSlackScan_FirstUncommitted(j + 1, best)

RECURSIVE MinSlackScan(_, _)
\* execute_phase(): the scan for the uncommitted job of least min-slack, from
\* job j on, best being the (worker, job, value) found before j.
MinSlackScan(j, best) ==
  IF j >= dim_ THEN best
  ELSE IF /\ parent_worker_by_committed_job_[j] = UNASSIGNED
          /\ min_slack_by_job_[j] < best.value
         THEN MinSlackScan(j + 1, [worker |-> min_slack_worker_by_job_[j],
                                   job |-> j,
                                   value |-> min_slack_by_job_[j]])
         ELSE MinSlackScan(j + 1, best)

\* The head of an iteration that never calls update_labeling.
SelectMinSlack_NoLabelUpdate ==
  /\ pc = "select"
  /\ LET found == MinSlackScan(0, [worker |-> UNASSIGNED, job |-> UNASSIGNED,
                                   value |-> POSITIVE_INFINITY])
     IN /\ min_slack_worker' = found.worker
        /\ min_slack_job' = found.job
        /\ min_slack_value' = found.value
        /\ pc' = "commit_job"
  /\ UNCHANGED not_hungarian
  /\ UNCHANGED <<cost_matrix, result, hungarian_fields, w_execute, w_greedy,
                 j_greedy, committed_job, parent_worker, hungarian_ghost>>

\* execute_phase(): the head of one loop iteration, up to the test
\* min_slack_value > 0.
SelectMinSlack ==
  /\ pc = "select"
  /\ LET found == MinSlackScan(0, [worker |-> UNASSIGNED, job |-> UNASSIGNED,
                                   value |-> POSITIVE_INFINITY])
     IN /\ min_slack_worker' = found.worker
        /\ min_slack_job' = found.job
        /\ min_slack_value' = found.value
        /\ pc' = IF found.value > 0 THEN "update_labeling" ELSE "commit_job"
  /\ UNCHANGED not_hungarian
  /\ UNCHANGED <<cost_matrix, result, hungarian_fields, w_execute, w_greedy,
                 j_greedy, committed_job, parent_worker, hungarian_ghost>>

\* update_labeling without the else branch that lowers min_slack_by_job_.
UpdateLabeling_SlackKept ==
  /\ pc = "update_labeling"
  /\ label_by_worker_' =
       [w \in Indices |-> IF committed_workers_[w]
                            THEN label_by_worker_[w] + min_slack_value
                            ELSE label_by_worker_[w]]
  /\ label_by_job_' =
       [j \in Indices |-> IF parent_worker_by_committed_job_[j] # UNASSIGNED
                            THEN label_by_job_[j] - min_slack_value
                            ELSE label_by_job_[j]]
  /\ pc' = "commit_job"
  /\ UNCHANGED not_hungarian
  /\ UNCHANGED <<cost_matrix, result, rows_, cols_, dim_, cost_matrix_,
                 min_slack_by_job_, min_slack_worker_by_job_, match_job_by_worker_,
                 match_worker_by_job_, parent_worker_by_committed_job_,
                 committed_workers_, hungarian_locals, hungarian_ghost>>

\* update_labeling applying the slack to the entries of the matrix instead
\* of the labels.
UpdateLabeling_OnMatrix ==
  /\ pc = "update_labeling"
  /\ cost_matrix_' =
       [w \in Indices |->
         [j \in Indices |->
           cost_matrix_[w][j]
             - (IF committed_workers_[w] THEN min_slack_value ELSE 0)
             + (IF parent_worker_by_committed_job_[j] # UNASSIGNED
                  THEN min_slack_value ELSE 0)]]
  /\ min_slack_by_job_' =
       [j \in Indices |-> IF parent_worker_by_committed_job_[j] # UNASSIGNED
                            THEN min_slack_by_job_[j]
                            ELSE min_slack_by_job_[j] - min_slack_value]
  /\ pc' = "commit_job"
  /\ UNCHANGED not_hungarian
  /\ UNCHANGED <<cost_matrix, result, rows_, cols_, dim_, label_by_worker_,
                 label_by_job_, min_slack_worker_by_job_, match_job_by_worker_,
                 match_worker_by_job_, parent_worker_by_committed_job_,
                 committed_workers_, hungarian_locals, hungarian_ghost>>

\* update_labeling(min_slack_value)
UpdateLabeling ==
  /\ pc = "update_labeling"
  /\ label_by_worker_' =
       [w \in Indices |-> IF committed_workers_[w]
                            THEN label_by_worker_[w] + min_slack_value
                            ELSE label_by_worker_[w]]
  /\ label_by_job_' =
       [j \in Indices |-> IF parent_worker_by_committed_job_[j] # UNASSIGNED
                            THEN label_by_job_[j] - min_slack_value
                            ELSE label_by_job_[j]]
  /\ min_slack_by_job_' =
       [j \in Indices |-> IF parent_worker_by_committed_job_[j] # UNASSIGNED
                            THEN min_slack_by_job_[j]
                            ELSE min_slack_by_job_[j] - min_slack_value]
  /\ pc' = "commit_job"
  /\ UNCHANGED not_hungarian
  /\ UNCHANGED <<cost_matrix, result, rows_, cols_, dim_, cost_matrix_,
                 min_slack_worker_by_job_, match_job_by_worker_,
                 match_worker_by_job_, parent_worker_by_committed_job_,
                 committed_workers_, hungarian_locals, hungarian_ghost>>

\* The commit that does not record the job's parent worker.
CommitJob_NotRecorded ==
  /\ pc = "commit_job"
  /\ commits' = commits + 1
  /\ IF match_worker_by_job_[min_slack_job] = UNASSIGNED
       THEN /\ committed_job' = min_slack_job
            /\ parent_worker' = min_slack_worker
            /\ pc' = "augment"
       ELSE /\ pc' = "commit_worker"
            /\ UNCHANGED <<committed_job, parent_worker>>
  /\ UNCHANGED not_hungarian
  /\ UNCHANGED <<cost_matrix, result, hungarian_fields, w_execute, w_greedy,
                 j_greedy, min_slack_worker, min_slack_job, min_slack_value,
                 executes, phases>>

\* execute_phase(): parent_worker_by_committed_job_[min_slack_job] =
\* min_slack_worker and the test for an unmatched job. The arrays are
\* bounds-checked: an index that is no job throws std::out_of_range.
CommitJob ==
  /\ pc = "commit_job"
  /\ IF min_slack_job \notin Indices
       THEN /\ pc' = "error"
            /\ UNCHANGED <<parent_worker_by_committed_job_, committed_job,
                           parent_worker, commits>>
       ELSE /\ parent_worker_by_committed_job_' =
                 [parent_worker_by_committed_job_ EXCEPT ![min_slack_job] = min_slack_worker]
            /\ commits' = commits + 1
            /\ IF match_worker_by_job_[min_slack_job] = UNASSIGNED
                 THEN /\ committed_job' = min_slack_job
                      /\ parent_worker' = min_slack_worker
                      /\ pc' = "augment"
                 ELSE /\ pc' = "commit_worker"
                      /\ UNCHANGED <<committed_job, parent_worker>>
  /\ UNCHANGED not_hungarian
  /\ UNCHANGED <<cost_matrix, result, rows_, cols_, dim_, cost_matrix_,
                 label_by_worker_, label_by_job_, min_slack_by_job_,
                 min_slack_worker_by_job_, match_job_by_worker_,
                 match_worker_by_job_, committed_workers_, w_execute, w_greedy,
                 j_greedy, min_slack_worker, min_slack_job, min_slack_value,
                 executes, phases>>

\* The iteration with a match() that writes match_job_by_worker_ only.
AugmentStep_WorkerOnly ==
  /\ pc = "augment"
  /\ IF parent_worker \notin Indices
       THEN /\ pc' = "error"
            /\ UNCHANGED <<match_job_by_worker_, match_worker_by_job_,
                           committed_job, parent_worker>>
       ELSE LET temp == match_job_by_worker_[parent_worker]
            IN /\ match_job_by_worker_' =
                    [match_job_by_worker_ EXCEPT ![parent_worker] = committed_job]
               /\ UNCHANGED match_worker_by_job_
               /\ committed_job' = temp
               /\ IF temp = UNASSIGNED
                    THEN /\ pc' = "fetch_unmatched_worker"
                         /\ UNCHANGED parent_worker
                    ELSE /\ parent_worker' = parent_worker_by_committed_job_[temp]
                         /\ pc' = "augment"
  /\ UNCHANGED not_hungarian
  /\ UNCHANGED <<cost_matrix, result, rows_, cols_, dim_, cost_matrix_,
                 label_by_worker_, label_by_job_, min_slack_by_job_,
                 min_slack_worker_by_job_, parent_worker_by_committed_job_,
                 committed_workers_, w_execute, w_greedy, j_greedy,
                 min_slack_worker, min_slack_job, min_slack_value,
                 hungarian_ghost>>

\* The augmenting-path loop left after its first match() call.
AugmentStep_OneCall ==
  /\ pc = "augment"
  /\ IF parent_worker \notin Indices
       THEN /\ pc' = "error"
            /\ UNCHANGED <<match_job_by_worker_, match_worker_by_job_,
                           committed_job, parent_worker>>
       ELSE /\ match_job_by_worker_' =
                 [match_job_by_worker_ EXCEPT ![parent_worker] = committed_job]
            /\ match_worker_by_job_' =
                 [match_worker_by_job_ EXCEPT ![committed_job] = parent_worker]
            /\ committed_job' = match_job_by_worker_[parent_worker]
            /\ pc' = "fetch_unmatched_worker"
            /\ UNCHANGED parent_worker
  /\ UNCHANGED not_hungarian
  /\ UNCHANGED <<cost_matrix, result, rows_, cols_, dim_, cost_matrix_,
                 label_by_worker_, label_by_job_, min_slack_by_job_,
                 min_slack_worker_by_job_, parent_worker_by_committed_job_,
                 committed_workers_, w_execute, w_greedy, j_greedy,
                 min_slack_worker, min_slack_job, min_slack_value,
                 hungarian_ghost>>

\* The iteration with a match() that writes match_worker_by_job_ only.
AugmentStep_JobOnly ==
  /\ pc = "augment"
  /\ IF parent_worker \notin Indices
       THEN /\ pc' = "error"
            /\ UNCHANGED <<match_job_by_worker_, match_worker_by_job_,
                           committed_job, parent_worker>>
       ELSE LET temp == match_job_by_worker_[parent_worker]
            IN /\ UNCHANGED match_job_by_worker_
               /\ match_worker_by_job_' =
                    [match_worker_by_job_ EXCEPT ![committed_job] = parent_worker]
               /\ committed_job' = temp
               /\ IF temp = UNASSIGNED
                    THEN /\ pc' = "fetch_unmatched_worker"
                         /\ UNCHANGED parent_worker
                    ELSE /\ parent_worker' = parent_worker_by_committed_job_[temp]
                         /\ pc' = "augment"
  /\ UNCHANGED not_hungarian
  /\ UNCHANGED <<cost_matrix, result, rows_, cols_, dim_, cost_matrix_,
                 label_by_worker_, label_by_job_, min_slack_by_job_,
                 min_slack_worker_by_job_, parent_worker_by_committed_job_,
                 committed_workers_, w_execute, w_greedy, j_greedy,
                 min_slack_worker, min_slack_job, min_slack_value,
                 hungarian_ghost>>

\* execute_phase(): one iteration of the augmenting-path loop, a single
\* match(parent_worker, committed_job) call.
AugmentStep ==
  /\ pc = "augment"
  /\ IF parent_worker \notin Indices
       THEN /\ pc' = "error"
            /\ UNCHANGED <<match_job_by_worker_, match_worker_by_job_,
                           committed_job, parent_worker>>
       ELSE LET temp == match_job_by_worker_[parent_worker]
            IN /\ match_job_by_worker_' =
                    [match_job_by_worker_ EXCEPT ![parent_worker] = committed_job]
               /\ match_worker_by_job_' =
                    [match_worker_by_job_ EXCEPT ![committed_job] = parent_worker]
               /\ committed_job' = temp
               /\ IF temp = UNASSIGNED
                    THEN /\ pc' = "fetch_unmatched_worker"
                         /\ UNCHANGED parent_worker
                    ELSE /\ parent_worker' = parent_worker_by_committed_job_[temp]
                         /\ pc' = "augment"
  /\ UNCHANGED not_hungarian
  /\ UNCHANGED <<cost_matrix, result, rows_, cols_, dim_, cost_matrix_,
                 label_by_worker_, label_by_job_, min_slack_by_job_,
                 min_slack_worker_by_job_, parent_worker_by_committed_job_,
                 committed_workers_, w_execute, w_greedy, j_greedy,
                 min_slack_worker, min_slack_job, min_slack_value,
                 hungarian_ghost>>

\* The else branch without the update of the slack arrays.
CommitWorker_NoSlackUpdate ==
  /\ pc = "commit_worker"
  /\ committed_workers_' =
       [committed_workers_ EXCEPT ![match_worker_by_job_[min_slack_job]] = TRUE]
  /\ pc' = "select"
  /\ UNCHANGED not_hungarian
  /\ UNCHANGED <<cost_matrix, result, rows_, cols_, dim_, cost_matrix_,
                 label_by_worker_, label_by_job_, min_slack_by_job_,
                 min_slack_worker_by_job_, match_job_by_worker_,
                 match_worker_by_job_, parent_worker_by_committed_job_,
                 hungarian_locals, hungarian_ghost>>

\* execute_phase(): the else branch, committing the worker matched to
\* min_slack_job and updating the slack arrays against it.
CommitWorker ==
  /\ pc = "commit_worker"
  /\ LET worker == match_worker_by_job_[min_slack_job]
         better(j) == /\ parent_worker_by_committed_job_[j] = UNASSIGNED
                      /\ min_slack_by_job_[j] > Slack(worker, j)
     IN /\ committed_workers_' = [committed_workers_ EXCEPT ![worker] = TRUE]
        /\ min_slack_by_job_' =
             [j \in Indices |-> IF better(j) THEN Slack(worker, j)
                                ELSE min_slack_by_job_[j]]
        /\ min_slack_worker_by_job_' =
             [j \in Indices |-> IF better(j) THEN worker
                                ELSE min_slack_worker_by_job_[j]]
  /\ pc' = "select"
  /\ UNCHANGED not_hungarian
  /\ UNCHANGED <<cost_matrix, result, rows_, cols_, dim_, cost_matrix_,
                 label_by_worker_, label_by_job_, match_job_by_worker_,
                 match_worker_by_job_, parent_worker_by_committed_job_,
                 hungarian_locals, hungarian_ghost>>

\* The copy without the loop that maps padding jobs to UNASSIGNED.
ProjectResult_CopyOnly(m, r, c) == [w \in 0 .. r - 1 |-> m[w]]

\* The projection with > for >=.
ProjectResult_Greater(m, r, c) ==
  [w \in 0 .. r - 1 |-> IF m[w] > c THEN UNASSIGNED ELSE m[w]]

\* execute(): what the memcpy and the loop after it leave in result[].
ProjectResult(m, r, c) ==
  [w \in 0 .. r - 1 |-> IF m[w] >= c THEN UNASSIGNED ELSE m[w]]

WriteResult ==
  /\ pc = "write_result"
  /\ result' = ProjectResult(match_job_by_worker_, rows_, cols_)
  /\ pc' = "done"
  /\ UNCHANGED not_hungarian
  /\ UNCHANGED <<cost_matrix, hungarian_fields, hungarian_locals, hungarian_ghost>>

HungarianNext ==
  \/ Construct
  \/ Execute
  \/ Reduce
  \/ ComputeInitialFeasibleSolution
  \/ GreedyMatchStep
  \/ FetchStep
  \/ InitializePhase
  \/ SelectMinSlack
  \/ UpdateLabeling
  \/ CommitJob
  \/ AugmentStep
  \/ CommitWorker
  \/ WriteResult

\* ---------------------------------------------------- KnuthMorrisPratt
\* Longest needle, longest haystack and largest start index.
MaxNeedle == 5

MaxHaystack == 8

MaxIndex == 1

\* KnuthMorrisPratt::NOT_FOUND, std::numeric_limits<uint32_t>::max(): 2^32 - 1
\* in the source, the largest integer of the model checker here.
NOT_FOUND == 2147483647

Alphabet == {"a", "b"}

\* The strings of length lo..hi. A std::string s is the sequence of its
\* characters: s[k] of the source is s[k + 1] here.
Strings(lo, hi) == UNION { [1 .. n -> Alphabet] : n \in lo .. hi }

\* s[k] of the source.
At(s, k) == s[k + 1]

KMPInit ==
  /\ kmp_pc = "construct"
  /\ needle \in Strings(1, MaxNeedle)
  /\ needle_ = <<>>
  /\ state_transition_table_ = <<>>
  /\ haystack = <<>>
  /\ index = 0
  /\ state = 0
  /\ i_execute = 0
  /\ kmp_result = NOT_FOUND

KMPIdle ==
  /\ kmp_pc = "idle"
  /\ needle = <<>>
  /\ needle_ = <<>>
  /\ state_transition_table_ = <<>>
  /\ haystack = <<>>
  /\ index = 0
  /\ state = 0
  /\ i_execute = 0
  /\ kmp_result = NOT_FOUND

RECURSIVE TableLoop(_, _, _, _)
\* The constructor's loop from iteration i on: st is its variable state,
\* table the entries written so far.
TableLoop(n, i, st, table) ==
  IF i >= Len(n) THEN table
  ELSE LET transition == IF At(n, st) = At(n, i) THEN table[st] ELSE st
       IN TableLoop(n, i + 1,
                    IF At(n, i) = At(n, st) THEN st + 1 ELSE 0,
                    [table EXCEPT ![i] = transition])

\* KnuthMorrisPratt::KnuthMorrisPratt: state_transition_table_ for needle n.
TransitionTable(n) ==
  TableLoop(n, 1, 0, [k \in 0 .. Len(n) - 1 |-> IF k = 0 THEN NOT_FOUND ELSE 0])

KMPConstruct ==
  /\ kmp_pc = "construct"
  /\ needle_' = needle
  /\ state_transition_table_' = TransitionTable(needle)
  /\ kmp_pc' = "constructed"
  /\ UNCHANGED not_kmp
  /\ UNCHANGED <<needle, haystack, index, state, i_execute, kmp_result>>

\* A call execute(haystack, index): the loop is entered with state = 0 and
\* i = index.
KMPExecute ==
  /\ kmp_pc = "constructed"
  /\ haystack' \in Strings(0, MaxHaystack)
  /\ index' \in 0 .. MaxIndex
  /\ state' = 0
  /\ i_execute' = index'
  /\ kmp_pc' = "loop"
  /\ UNCHANGED not_kmp
  /\ UNCHANGED <<needle, needle_, state_transition_table_, kmp_result>>

\* The else branch without its do-while loop: the state is kept, and
\* incremented, on a mismatch.
Fallback_StateKept(st, c) == st

RECURSIVE Fallback(_, _)
\* execute()'s do-while loop: follow the table from state st until it is
\* NOT_FOUND or the needle's character there is c.
Fallback(st, c) ==
  LET next == state_transition_table_[st]
  IN IF next # NOT_FOUND /\ c # At(needle_, next) THEN Fallback(next, c) ELSE next

\* One test of execute()'s for loop, and one iteration if it passes.
KMPStep ==
  /\ kmp_pc = "loop"
  /\ IF i_execute < Len(haystack)
       THEN IF At(haystack, i_execute) = At(needle_, state)
              THEN IF state + 1 = Len(needle_)
                     THEN /\ kmp_result' = i_execute - Len(needle_) + 1
                          /\ state' = state + 1
                          /\ kmp_pc' = "done"
                          /\ UNCHANGED i_execute
                     ELSE /\ state' = state + 1
                          /\ i_execute' = i_execute + 1
                          /\ UNCHANGED <<kmp_result, kmp_pc>>
              ELSE LET st == Fallback(state, At(haystack, i_execute))
                   IN /\ state' = IF st = NOT_FOUND THEN 0 ELSE st + 1
                      /\ i_execute' = i_execute + 1
                      /\ UNCHANGED <<kmp_result, kmp_pc>>
       ELSE /\ kmp_result' = NOT_FOUND
            /\ kmp_pc' = "done"
            /\ UNCHANGED <<state, i_execute>>
  /\ UNCHANGED not_kmp
  /\ UNCHANGED <<needle, needle_, state_transition_table_, haystack, index>>

KMPNext ==
  \/ KMPConstruct
  \/ KMPExecute
  \/ KMPStep

\* -------------------------------------------------- DamerauLevenshtein
\* Largest cost of an edit operation, and longest source or target string.
MaxCost == 3

MaxString == 3

\* std::numeric_limits<int32_t>::max(), the swap cost of a cell that admits
\* no swap.
INT32_MAX == 2147483647

\* std::numeric_limits<uint32_t>::max(), the value of
\* max_source_letter_match_index while the row has no match: 2^32 - 1 in the
\* source, here a value no column index reaches.
UINT32_MAX == 2147483647

Min2(a, b) == IF a <= b THEN a ELSE b

CostTuples ==
  [insert_cost : 0 .. MaxCost, delete_cost : 0 .. MaxCost,
   replace_cost : 0 .. MaxCost, swap_cost : 0 .. MaxCost]

DLInit ==
  /\ dl_pc = "construct"
  /\ costs \in CostTuples
  /\ insert_cost_ = 0 /\ delete_cost_ = 0 /\ replace_cost_ = 0 /\ swap_cost_ = 0
  /\ source = <<>>
  /\ target = <<>>
  /\ dl_result = 0

DLIdle ==
  /\ dl_pc = "idle"
  /\ costs = [insert_cost |-> 0, delete_cost |-> 0, replace_cost |-> 0, swap_cost |-> 0]
  /\ insert_cost_ = 0 /\ delete_cost_ = 0 /\ replace_cost_ = 0 /\ swap_cost_ = 0
  /\ source = <<>>
  /\ target = <<>>
  /\ dl_result = 0

\* The constructor's test with swap_cost for 2 * swap_cost.
InvalidCosts_SingleSwap(c) == c.swap_cost < c.insert_cost + c.delete_cost

\* The constructor's test: the tuple it rejects.
InvalidCosts(c) == 2 * c.swap_cost < c.insert_cost + c.delete_cost

\* DamerauLevenshtein::DamerauLevenshtein: throws std::runtime_error on an
\* invalid tuple, and no instance exists then.
DLConstruct ==
  /\ dl_pc = "construct"
  /\ IF InvalidCosts(costs)
       THEN /\ dl_pc' = "error"
            /\ UNCHANGED <<insert_cost_, delete_cost_, replace_cost_, swap_cost_>>
       ELSE /\ insert_cost_' = costs.insert_cost
            /\ delete_cost_' = costs.delete_cost
            /\ replace_cost_' = costs.replace_cost
            /\ swap_cost_' = costs.swap_cost
            /\ dl_pc' = "constructed"
  /\ UNCHANGED not_dl
  /\ UNCHANGED <<costs, source, target, dl_result>>

RECURSIVE FirstColumn(_, _, _, _)
\* execute(): the loop filling table[i][0], from row i on.
FirstColumn(s, t, i, table) ==
  IF i >= Len(s) THEN table
  ELSE LET del == table[i - 1][0] + delete_cost_
           ins == (i + 1) * delete_cost_ + insert_cost_
           repl == i * delete_cost_ + (IF At(s, i) = At(t, 0) THEN 0 ELSE replace_cost_)
       IN FirstColumn(s, t, i + 1,
                      [table EXCEPT ![i][0] = Min2(del, Min2(ins, repl))])

RECURSIVE FirstRow(_, _, _, _)
\* execute(): the loop filling table[0][j], from column j on.
FirstRow(s, t, j, table) ==
  IF j >= Len(t) THEN table
  ELSE LET del == (j + 1) * insert_cost_ + delete_cost_
           ins == table[0][j - 1] + insert_cost_
           repl == j * insert_cost_ + (IF At(s, 0) = At(t, j) THEN 0 ELSE replace_cost_)
       IN FirstRow(s, t, j + 1,
                   [table EXCEPT ![0][j] = Min2(del, Min2(ins, repl))])

\* table[i_swap == 0 ? 0 : i_swap - 1][j_swap == 0 ? 0 : j_swap - 1], and 0
\* when both are 0.
PreSwapCost(table, i_swap, j_swap) ==
  IF i_swap = 0 /\ j_swap = 0 THEN 0
  ELSE table[IF i_swap = 0 THEN 0 ELSE i_swap - 1][IF j_swap = 0 THEN 0 ELSE j_swap - 1]

RECURSIVE InnerLoop(_, _, _, _, _, _, _)
\* execute(): the loop over j of row i, from column j on. map is
\* source_index_by_char, match is max_source_letter_match_index.
InnerLoop(s, t, i, j, table, map, match) ==
  IF j >= Len(t) THEN table
  ELSE LET j_swap == match
           del == table[i - 1][j] + delete_cost_
           ins == table[i][j - 1] + insert_cost_
           repl == table[i - 1][j - 1]
                     + (IF At(s, i) # At(t, j) THEN replace_cost_ ELSE 0)
           swap == IF At(t, j) \in DOMAIN map /\ j_swap # UINT32_MAX
                     THEN LET i_swap == map[At(t, j)]
                          IN PreSwapCost(table, i_swap, j_swap)
                               + (i - i_swap - 1) * delete_cost_
                               + (j - j_swap - 1) * insert_cost_
                               + swap_cost_
                     ELSE INT32_MAX
       IN InnerLoop(s, t, i, j + 1,
                    [table EXCEPT ![i][j] = Min2(swap, Min2(del, Min2(ins, repl)))],
                    map,
                    IF At(s, i) # At(t, j) THEN match ELSE j)

RECURSIVE OuterLoop(_, _, _, _, _)
\* execute(): the loop over the rows i >= 1, from row i on.
OuterLoop(s, t, i, table, map) ==
  IF i >= Len(s) THEN table
  ELSE OuterLoop(s, t, i + 1,
                 InnerLoop(s, t, i, 1, table, map,
                           IF At(s, i) = At(t, 0) THEN 0 ELSE UINT32_MAX),
                 [c \in DOMAIN map \cup {At(s, i)} |->
                    IF c = At(s, i) THEN i ELSE map[c]])

\* DamerauLevenshtein::execute(source, target)
Distance(s, t) ==
  IF Len(s) = 0 THEN Len(t) * insert_cost_
  ELSE IF Len(t) = 0 THEN Len(s) * delete_cost_
  ELSE LET zero == [i \in 0 .. Len(s) - 1 |-> [j \in 0 .. Len(t) - 1 |-> 0]]
           corner == [zero EXCEPT ![0][0] =
                        IF At(s, 0) = At(t, 0) THEN 0
                        ELSE Min2(insert_cost_ + delete_cost_, replace_cost_)]
           map == [c \in {At(s, 0)} |-> 0]
           table == OuterLoop(s, t, 1,
                              FirstRow(s, t, 1, FirstColumn(s, t, 1, corner)), map)
       IN table[Len(s) - 1][Len(t) - 1]

DLExecute ==
  /\ dl_pc = "constructed"
  /\ source' \in Strings(0, MaxString)
  /\ target' \in Strings(0, MaxString)
  /\ dl_result' = Distance(source', target')
  /\ dl_pc' = "done"
  /\ UNCHANGED not_dl
  /\ UNCHANGED <<costs, insert_cost_, delete_cost_, replace_cost_, swap_cost_>>

DLNext ==
  \/ DLConstruct
  \/ DLExecute

\* --------------------------------------------------------- RedBlackTree
\* The values inserted and removed are 1 .. MaxValue.
MaxValue == 6

Values == 1 .. MaxValue

\* nullptr.
NIL == 0

\* The addresses new NodeType(value) can return. No code compares addresses
\* except for equality, so new returns the least address not in use.
Addresses == 1 .. MaxValue

\* The comparator of the tests: o1 - o2.
Compare(o1, o2) == o1 - o2

\* Node<T>::Node and LinkedNode<T>::LinkedNode. A Node<T> has no successor_
\* and predecessor_ members: they stay NIL and are never read.
NewNode(value) ==
  [color |-> "BLACK", left |-> NIL, right |-> NIL, parent |-> NIL,
   value |-> value, successor |-> NIL, predecessor |-> NIL]

\* A tree in the middle of a call: the allocated nodes, root_, and whether the
\* call has dereferenced a null pointer.
Tree(nodes, root, fault) == [nodes |-> nodes, root |-> root, fault |-> fault]

Fault(t) == [t EXCEPT !.fault = TRUE]

Left(t, n) == t.nodes[n].left

Right(t, n) == t.nodes[n].right

Parent(t, n) == t.nodes[n].parent

Value(t, n) == t.nodes[n].value

SetLeft(t, n, x) == [t EXCEPT !.nodes[n].left = x]

SetRight(t, n, x) == [t EXCEPT !.nodes[n].right = x]

SetParent(t, n, x) == [t EXCEPT !.nodes[n].parent = x]

SetValue(t, n, x) == [t EXCEPT !.nodes[n].value = x]

SetSuccessor(t, n, x) == [t EXCEPT !.nodes[n].successor = x]

SetPredecessor(t, n, x) == [t EXCEPT !.nodes[n].predecessor = x]

\* F applied to the value of x: a local definition whose right-hand side is
\* evaluated once, however often the operator that uses it refers to it.
With(x, F(_)) == CHOOSE r \in {F(y) : y \in {x}} : TRUE

\* RedBlackTree::color: a null leaf is black.
Color(t, n) == IF n = NIL THEN "BLACK" ELSE t.nodes[n].color

\* RedBlackTree::set_color: no effect on a null leaf.
SetColor(t, n, c) == IF n = NIL THEN t ELSE [t EXCEPT !.nodes[n].color = c]

\* new NodeType(value): the tree with the node allocated, and its address.
Allocate(t, value) ==
  LET node == SetMin(Addresses \ DOMAIN t.nodes)
  IN [tree |-> [t EXCEPT !.nodes = [n \in DOMAIN t.nodes \cup {node} |->
                                      IF n = node THEN NewNode(value)
                                      ELSE t.nodes[n]]],
      node |-> node]

\* delete node.
Delete(t, node) ==
  [t EXCEPT !.nodes = [n \in DOMAIN t.nodes \ {node} |-> t.nodes[n]]]

\* RedBlackTree::right_rotate.
right_rotate(tree, node) ==
  With(tree, LAMBDA t :
    IF t.fault THEN t
    ELSE IF node = NIL \/ Left(t, node) = NIL THEN Fault(t)
    ELSE LET temp == Left(t, node)
         IN With(SetLeft(t, node, Right(t, temp)), LAMBDA t1 :
            With(IF Right(t1, temp) # NIL
                   THEN SetParent(t1, Right(t1, temp), node) ELSE t1, LAMBDA t2 :
            With(SetParent(t2, temp, Parent(t2, node)), LAMBDA t3 :
            With(IF Parent(t3, node) = NIL THEN [t3 EXCEPT !.root = temp]
                 ELSE IF node = Right(t3, Parent(t3, node))
                   THEN SetRight(t3, Parent(t3, node), temp)
                 ELSE SetLeft(t3, Parent(t3, node), temp), LAMBDA t4 :
            SetParent(SetRight(t4, temp, node), node, temp))))))

\* RedBlackTree::left_rotate.
left_rotate(tree, node) ==
  With(tree, LAMBDA t :
    IF t.fault THEN t
    ELSE IF node = NIL \/ Right(t, node) = NIL THEN Fault(t)
    ELSE LET temp == Right(t, node)
         IN With(SetRight(t, node, Left(t, temp)), LAMBDA t1 :
            With(IF Left(t1, temp) # NIL
                   THEN SetParent(t1, Left(t1, temp), node) ELSE t1, LAMBDA t2 :
            With(SetParent(t2, temp, Parent(t2, node)), LAMBDA t3 :
            With(IF Parent(t3, node) = NIL THEN [t3 EXCEPT !.root = temp]
                 ELSE IF node = Left(t3, Parent(t3, node))
                   THEN SetLeft(t3, Parent(t3, node), temp)
                 ELSE SetRight(t3, Parent(t3, node), temp), LAMBDA t4 :
            SetParent(SetLeft(t4, temp, node), node, temp))))))

\* set_color(node->parent(), BLACK); set_color(temp, BLACK);
\* set_color(node->parent()->parent(), RED): the recolouring of
\* fix_after_insertion when the uncle temp is red.
RecolorRedUncle(t, node, temp) ==
  LET p == Parent(t, node)
  IN SetColor(SetColor(SetColor(t, p, "BLACK"), temp, "BLACK"), Parent(t, p), "RED")

\* set_color(node->parent(), BLACK); set_color(node->parent()->parent(), RED):
\* the recolouring of fix_after_insertion before its last rotation.
RecolorBeforeRotation(t, node) ==
  LET p == Parent(t, node)
  IN SetColor(SetColor(t, p, "BLACK"), Parent(t, p), "RED")

RECURSIVE fix_after_insertion(_, _)
\* RedBlackTree::fix_after_insertion, from one test of its loop on.
fix_after_insertion(tree, node) ==
  With(tree, LAMBDA t :
    IF t.fault THEN t
    ELSE IF Color(t, Parent(t, node)) # "RED" THEN SetColor(t, t.root, "BLACK")
    ELSE IF Parent(t, Parent(t, node)) = NIL THEN Fault(t)
    ELSE LET p == Parent(t, node)
             g == Parent(t, p)
         IN IF p = Left(t, g)
              THEN LET temp == Right(t, g)
                   IN IF Color(t, temp) = "RED"
                        THEN fix_after_insertion(RecolorRedUncle(t, node, temp), g)
                        ELSE LET inner == node = Right(t, p)
                                 n1 == IF inner THEN p ELSE node
                             IN With(IF inner THEN left_rotate(t, n1) ELSE t, LAMBDA t1 :
                                With(RecolorBeforeRotation(t1, n1), LAMBDA t2 :
                                fix_after_insertion(
                                  right_rotate(t2, Parent(t2, Parent(t2, n1))), n1)))
              ELSE LET temp == Left(t, g)
                   IN IF Color(t, temp) = "RED"
                        THEN fix_after_insertion(RecolorRedUncle(t, node, temp), g)
                        ELSE LET inner == node = Left(t, p)
                                 n1 == IF inner THEN p ELSE node
                             IN With(IF inner THEN right_rotate(t, n1) ELSE t, LAMBDA t1 :
                                With(RecolorBeforeRotation(t1, n1), LAMBDA t2 :
                                fix_after_insertion(
                                  left_rotate(t2, Parent(t2, Parent(t2, n1))), n1))))

\* set_color(temp, BLACK); set_color(node->parent(), RED): the recolouring
\* of fix_after_removal when the sibling temp is red.
RecolorRedSibling(t, node, temp) ==
  SetColor(SetColor(t, temp, "BLACK"), Parent(t, node), "RED")

\* set_color(child, BLACK); set_color(temp, RED): the recolouring of
\* fix_after_removal before it rotates the sibling temp.
RecolorBeforeSiblingRotation(t, temp, child) ==
  SetColor(SetColor(t, child, "BLACK"), temp, "RED")

\* set_color(temp, color(node->parent())); set_color(node->parent(), BLACK);
\* set_color(child, BLACK): the last recolouring of fix_after_removal, child
\* being temp->right() or temp->left() as the caller read it.
RecolorBeforeParentRotation(t, node, temp, child) ==
  SetColor(SetColor(SetColor(t, temp, Color(t, Parent(t, node))),
                    Parent(t, node), "BLACK"), child, "BLACK")

\* fix_after_removal without its loop: only the final set_color(node, BLACK).
fix_after_removal_ColorOnly(tree, node) == SetColor(tree, node, "BLACK")

RECURSIVE fix_after_removal(_, _)
\* RedBlackTree::fix_after_removal, from one test of its loop on. The node
\* may be the removed node itself, which its parent no longer points to.
fix_after_removal(tree, node) ==
  With(tree, LAMBDA t :
    IF t.fault THEN t
    ELSE IF ~(node # t.root /\ Color(t, node) = "BLACK") THEN SetColor(t, node, "BLACK")
    ELSE IF node = NIL \/ Parent(t, node) = NIL THEN Fault(t)
    ELSE LET p == Parent(t, node)
         IN IF node = Left(t, p) \/ (Right(t, p) # NIL /\ node # Right(t, p))
              THEN With(IF Color(t, Right(t, p)) = "RED"
                          THEN left_rotate(RecolorRedSibling(t, node, Right(t, p)), p)
                          ELSE t, LAMBDA t1 :
                   LET temp == Right(t1, Parent(t1, node))
                   IN IF t1.fault THEN t1
                      ELSE IF temp = NIL THEN Fault(t1)
                      ELSE IF /\ Color(t1, Left(t1, temp)) = "BLACK"
                              /\ Color(t1, Right(t1, temp)) = "BLACK"
                        THEN fix_after_removal(SetColor(t1, temp, "RED"), Parent(t1, node))
                        ELSE With(IF Color(t1, Right(t1, temp)) = "BLACK"
                                    THEN right_rotate(
                                           RecolorBeforeSiblingRotation(
                                             t1, temp, Left(t1, temp)), temp)
                                    ELSE t1, LAMBDA t2 :
                             LET temp2 == Right(t2, Parent(t2, node))
                             IN IF t2.fault THEN t2
                                ELSE IF temp2 = NIL THEN Fault(t2)
                                ELSE With(left_rotate(
                                            RecolorBeforeParentRotation(
                                              t2, node, temp2, Right(t2, temp2)),
                                            Parent(t2, node)), LAMBDA t3 :
                                     fix_after_removal(t3, t3.root))))
              ELSE With(IF Color(t, Left(t, p)) = "RED"
                          THEN right_rotate(RecolorRedSibling(t, node, Left(t, p)), p)
                          ELSE t, LAMBDA t1 :
                   LET temp == Left(t1, Parent(t1, node))
                   IN IF t1.fault THEN t1
                      ELSE IF temp = NIL THEN Fault(t1)
                      ELSE IF /\ Color(t1, Right(t1, temp)) = "BLACK"
                              /\ Color(t1, Left(t1, temp)) = "BLACK"
                        THEN fix_after_removal(SetColor(t1, temp, "RED"), Parent(t1, node))
                        ELSE With(IF Color(t1, Left(t1, temp)) = "BLACK"
                                    THEN left_rotate(
                                           RecolorBeforeSiblingRotation(
                                             t1, temp, Right(t1, temp)), temp)
                                    ELSE t1, LAMBDA t2 :
                             LET temp2 == Left(t2, Parent(t2, node))
                             IN IF t2.fault THEN t2
                                ELSE IF temp2 = NIL THEN Fault(t2)
                                ELSE With(right_rotate(
                                            RecolorBeforeParentRotation(
                                              t2, node, temp2, Left(t2, temp2)),
                                            Parent(t2, node)), LAMBDA t3 :
                                     fix_after_removal(t3, t3.root)))))

RECURSIVE get_node_impl(_, _, _)
\* RedBlackTree::get_node_impl, its loop from the node it has reached.
get_node_impl(t, node, value) ==
  IF node = NIL THEN NIL
  ELSE LET delta == Compare(Value(t, node), value)
       IN IF delta < 0 THEN get_node_impl(t, Right(t, node), value)
          ELSE IF delta > 0 THEN get_node_impl(t, Left(t, node), value)
          ELSE node

RECURSIVE Leftmost(_, _)
\* while (result->left() != nullptr) result = result->left();
Leftmost(t, at) ==
  IF Left(t, at) # NIL THEN Leftmost(t, Left(t, at)) ELSE at

RECURSIVE Rightmost(_, _)
\* while (result->right() != nullptr) result = result->right();
Rightmost(t, at) ==
  IF Right(t, at) # NIL THEN Rightmost(t, Right(t, at)) ELSE at

RECURSIVE ClimbFromLeft(_, _, _)
\* predecessor_internal's loop: up while the node is a left child.
ClimbFromLeft(t, at, temp) ==
  IF temp # NIL /\ at = Left(t, temp)
    THEN ClimbFromLeft(t, temp, Parent(t, temp)) ELSE temp

RECURSIVE ClimbFromRight(_, _, _)
\* successor_internal's loop: up while the node is a right child.
ClimbFromRight(t, node, temp) ==
  IF temp # NIL /\ node = Right(t, temp)
    THEN ClimbFromRight(t, temp, Parent(t, temp)) ELSE temp

\* RedBlackTree::predecessor_internal: the tree walk.
predecessor_internal(t, node) ==
  IF node = NIL THEN NIL
  ELSE IF Left(t, node) # NIL THEN Rightmost(t, Left(t, node))
  ELSE ClimbFromLeft(t, node, Parent(t, node))

\* RedBlackTree::successor_internal: the tree walk.
successor_internal(t, node) ==
  IF node = NIL THEN NIL
  ELSE IF Right(t, node) # NIL THEN Leftmost(t, Right(t, node))
  ELSE ClimbFromRight(t, node, Parent(t, node))

\* RedBlackTree::predecessor: predecessor_impl is the tree walk for Node<T>
\* and the maintained link for LinkedNode<T>.
predecessor(t, isLinked, node) ==
  IF isLinked THEN t.nodes[node].predecessor ELSE predecessor_internal(t, node)

\* RedBlackTree::successor.
successor(t, isLinked, node) ==
  IF isLinked THEN t.nodes[node].successor ELSE successor_internal(t, node)

\* RedBlackTree::post_insert(LinkedNode<T>*): the new node is linked between
\* its neighbours in the tree.
post_insert(tree, linkedNode) ==
  With(tree, LAMBDA t :
    LET pred == predecessor_internal(t, linkedNode)
        succ == successor_internal(t, linkedNode)
    IN With(SetPredecessor(t, linkedNode, pred), LAMBDA t1 :
       With(IF pred # NIL THEN SetSuccessor(t1, pred, linkedNode) ELSE t1, LAMBDA t2 :
       With(SetSuccessor(t2, linkedNode, succ), LAMBDA t3 :
       IF succ # NIL THEN SetPredecessor(t3, succ, linkedNode) ELSE t3))))

\* post_delete that leaves the successor's predecessor link as it was.
post_delete_ForwardOnly(tree, linkedNode) ==
  With(tree, LAMBDA t :
    LET pred == t.nodes[linkedNode].predecessor
        succ == t.nodes[linkedNode].successor
    IN IF pred # NIL THEN SetSuccessor(t, pred, succ) ELSE t)

\* RedBlackTree::post_delete(LinkedNode<T>*): the node's neighbours are
\* linked with each other.
post_delete(tree, linkedNode) ==
  With(tree, LAMBDA t :
    LET pred == t.nodes[linkedNode].predecessor
        succ == t.nodes[linkedNode].successor
    IN With(IF pred # NIL THEN SetSuccessor(t, pred, succ) ELSE t, LAMBDA t1 :
       IF succ # NIL THEN SetPredecessor(t1, succ, pred) ELSE t1))

\* RedBlackTree::post_exchange_values(LinkedNode<T>*, LinkedNode<T>*).
post_exchange_values(tree, linkedNode, linkedSuccessor) ==
  With(tree, LAMBDA t :
    LET next == t.nodes[linkedSuccessor].successor
    IN With(SetSuccessor(t, linkedNode, next), LAMBDA t1 :
       With(IF next # NIL THEN SetPredecessor(t1, next, linkedNode) ELSE t1, LAMBDA t2 :
       SetSuccessor(SetPredecessor(t2, linkedSuccessor, NIL), linkedSuccessor, NIL))))

\* RedBlackTree::exchange_values; post_exchange_values is a no-op for Node<T>.
exchange_values(tree, isLinked, n, succ) ==
  With(tree, LAMBDA t :
    With(SetValue(SetValue(t, succ, Value(t, n)), n, Value(t, succ)), LAMBDA t1 :
    IF isLinked THEN post_exchange_values(t1, n, succ) ELSE t1))

\* node = new NodeType(value); parent->set_left(node) or set_right(node);
\* node->set_parent(parent): the tree it leaves and the new node.
Attach(t, parent, value, onLeft) ==
  With(Allocate(t, value), LAMBDA a :
    [tree |-> SetParent(IF onLeft THEN SetLeft(a.tree, parent, a.node)
                        ELSE SetRight(a.tree, parent, a.node), a.node, parent),
     node |-> a.node, found |-> FALSE])

RECURSIVE InsertDescend(_, _, _)
\* insert()'s loop, from the node `parent` on: the tree it leaves, the node it
\* created (NIL if none) and whether it returned false on an equal value.
InsertDescend(t, parent, value) ==
  IF parent = NIL THEN [tree |-> t, node |-> NIL, found |-> FALSE]
  ELSE LET delta == Compare(Value(t, parent), value)
       IN IF delta < 0
            THEN IF Right(t, parent) = NIL THEN Attach(t, parent, value, FALSE)
                 ELSE InsertDescend(t, Right(t, parent), value)
          ELSE IF delta > 0
            THEN IF Left(t, parent) = NIL THEN Attach(t, parent, value, TRUE)
                 ELSE InsertDescend(t, Left(t, parent), value)
          ELSE [tree |-> t, node |-> NIL, found |-> TRUE]

\* if (node == nullptr) { node = new NodeType(value); root_ = node; }
RootIfEmpty(d, value) ==
  IF d.node # NIL THEN d
  ELSE With(Allocate(d.tree, value), LAMBDA a :
         [tree |-> [a.tree EXCEPT !.root = a.node], node |-> a.node, found |-> FALSE])

\* RedBlackTree::insert: the tree it leaves and the value it returns.
insert(tree, isLinked, value) ==
  With(tree, LAMBDA t :
    With(InsertDescend(t, t.root, value), LAMBDA d :
    IF d.found THEN [tree |-> t, result |-> FALSE]
    ELSE With(RootIfEmpty(d, value), LAMBDA a :
         With(fix_after_insertion(SetColor(a.tree, a.node, "RED"), a.node), LAMBDA t1 :
         [tree |-> IF isLinked /\ ~t1.fault THEN post_insert(t1, a.node) ELSE t1,
          result |-> TRUE]))))

\* remove(), from the node that is unlinked on: swap replaces it, the tree
\* is re-balanced, the node is deleted.
Unlink(tree, isLinked, node) ==
  With(tree, LAMBDA t :
    LET swap == IF Left(t, node) # NIL THEN Left(t, node) ELSE Right(t, node)
    IN With(IF swap # NIL THEN SetParent(t, swap, Parent(t, node)) ELSE t, LAMBDA t1 :
       With(IF Parent(t1, node) = NIL THEN [t1 EXCEPT !.root = swap]
            ELSE IF node = Left(t1, Parent(t1, node))
              THEN SetLeft(t1, Parent(t1, node), swap)
            ELSE SetRight(t1, Parent(t1, node), swap), LAMBDA t2 :
       With(IF Color(t2, node) = "BLACK" /\ t2.root # NIL
              THEN fix_after_removal(t2, IF swap = NIL THEN node ELSE swap)
              ELSE t2, LAMBDA t3 :
       Delete(IF isLinked /\ ~t3.fault THEN post_delete(t3, node) ELSE t3, node)))))

\* RedBlackTree::remove, once node(value) has found the node: the tree it
\* leaves.
RemoveNode(tree, isLinked, found) ==
  With(tree, LAMBDA t :
    IF Left(t, found) = NIL \/ Right(t, found) = NIL THEN Unlink(t, isLinked, found)
    ELSE LET succ == successor(t, isLinked, found)
         IN IF succ = NIL THEN Fault(t)
            ELSE Unlink(exchange_values(t, isLinked, found, succ), isLinked, succ))

\* remove() with the value returned for an absent value inverted.
remove_AlwaysTrue(t, isLinked, value) ==
  LET node == get_node_impl(t, t.root, value)
  IN IF node = NIL THEN [tree |-> t, result |-> TRUE]
     ELSE [tree |-> RemoveNode(t, isLinked, node), result |-> TRUE]

\* RedBlackTree::remove: the tree it leaves and the value it returns.
remove(t, isLinked, value) ==
  LET node == get_node_impl(t, t.root, value)
  IN IF node = NIL THEN [tree |-> t, result |-> FALSE]
     ELSE [tree |-> RemoveNode(t, isLinked, node), result |-> TRUE]

\* RedBlackTree::contains.
contains(t, value) == get_node_impl(t, t.root, value) # NIL

\* The tree between two calls.
CurrentTree == Tree(heap, root_, FALSE)

\* RedBlackTree::RedBlackTree, for either node type: an empty tree, and an
\* empty master collection beside it.
RBTInit ==
  /\ rbt_pc = "ready"
  /\ linked \in BOOLEAN
  /\ heap = <<>>
  /\ root_ = NIL
  /\ size_ = 0
  /\ rbt_result = FALSE
  /\ master = {}

\* No tree: the state of this component in the other specifications.
RBTIdle ==
  /\ rbt_pc = "idle"
  /\ linked = FALSE
  /\ heap = <<>>
  /\ root_ = NIL
  /\ size_ = 0
  /\ rbt_result = FALSE
  /\ master = {}

\* What a call leaves: the tree and the return value, or, after a null
\* pointer was dereferenced, a state about which nothing is known.
Returns(r, newSize) ==
  IF r.tree.fault
    THEN /\ rbt_pc' = "undefined"
         /\ UNCHANGED <<heap, root_, size_, rbt_result>>
    ELSE /\ rbt_pc' = "ready"
         /\ heap' = r.tree.nodes
         /\ root_' = r.tree.root
         /\ size_' = IF r.result THEN newSize ELSE size_
         /\ rbt_result' = r.result

\* A call tree.insert(value), with master.insert(value) beside it.
Insert ==
  /\ rbt_pc = "ready"
  /\ \E value \in Values :
       /\ Returns(insert(CurrentTree, linked, value), size_ + 1)
       /\ master' = master \cup {value}
  /\ UNCHANGED linked
  /\ UNCHANGED not_rbt

\* A call tree.remove(value), with master.erase(value) beside it.
Remove ==
  /\ rbt_pc = "ready"
  /\ \E value \in Values :
       /\ Returns(remove(CurrentTree, linked, value), size_ - 1)
       /\ master' = master \ {value}
  /\ UNCHANGED linked
  /\ UNCHANGED not_rbt

RBTNext ==
  \/ Insert
  \/ Remove

\* ----------------------------------------------------------- MultiArray
\* The arrays have D = 1 .. MaxRank dimensions of extents up to MaxExtent.
MaxRank == 3

MaxExtent == 4

RECURSIVE Count(_, _)
\* The number of elements of an initializer whose dimensions from k on have
\* the extents e[k], e[k + 1], ...
Count(e, k) == IF k > Len(e) THEN 1 ELSE e[k] * Count(e, k + 1)

RECURSIVE Literal(_, _, _)
\* The nested initializer list of extents e[k], e[k + 1], ... whose elements
\* are first, first + 1, ... in reading order, as {1, 2, 3, 4} and
\* {{1, 2}, {3, 4}} of the tests.
Literal(e, k, first) ==
  IF k = Len(e) THEN [j \in 1 .. e[k] |-> first + j - 1]
  ELSE [i \in 1 .. e[k] |-> Literal(e, k + 1, first + (i - 1) * Count(e, k + 1))]

RECURSIVE populate_extents(_, _, _, _)
\* InitializerHelper<T, Dim>::populate_extents: extents[D - Dim] is the
\* length of the list, the rest is taken from its first element.
populate_extents(list, D, Dim, extents) ==
  LET written == [extents EXCEPT ![D - Dim] = Len(list)]
  IN IF Dim = 1 THEN written
     ELSE populate_extents(Head(list), D, Dim - 1, written)

RECURSIVE populate_elements(_, _, _)
RECURSIVE PopulateFrom(_, _, _, _)
\* InitializerHelper<T, Dim>::populate_elements: the elements are appended
\* to the array list by list.
populate_elements(list, Dim, array) ==
  IF Dim = 1 THEN array \o list
  ELSE PopulateFrom(list, 1, Dim, array)

\* populate_elements' loop, from the iter-th element of the list on.
PopulateFrom(list, iter, Dim, array) ==
  IF iter > Len(list) THEN array
  ELSE With(populate_elements(list[iter], Dim - 1, array), LAMBDA appended :
         PopulateFrom(list, iter + 1, Dim, appended))

RECURSIVE Multipliers(_, _, _, _)
\* The constructor's loop for (j = D - 2; j != UINT32_MAX_VALUE; --j):
\* total *= extent_[j + 1]; multiplier_[j] = total.
Multipliers(extents, j, total, multiplier) ==
  IF j < 0 THEN multiplier
  ELSE Multipliers(extents, j - 1, total * extents[j + 1],
                   [multiplier EXCEPT ![j] = total * extents[j + 1]])

\* The index tuples of the tests reach one past the extent and beyond.
MAIndices == 0 .. MaxExtent + 1

\* A MultiArray<int, D> is about to be built from an initializer list whose
\* lists of one dimension all have the same length (at least one list in
\* every dimension but the last).
MAInit ==
  /\ ma_pc = "construct"
  /\ \E D \in 1 .. MaxRank :
       /\ rank = D
       /\ \E e \in [1 .. D -> 0 .. MaxExtent] :
            /\ \A k \in 1 .. D - 1 : e[k] >= 1
            /\ initializer = Literal(e, 1, 1)
  /\ extent_ = <<>>
  /\ multiplier_ = <<>>
  /\ array_ = <<>>
  /\ view = [E |-> 0, index_ |-> 0]
  /\ indices = <<>>
  /\ element = 0

\* No array: the state of this component in the other specifications.
MAIdle ==
  /\ ma_pc = "idle"
  /\ rank = 0
  /\ initializer = <<>>
  /\ extent_ = <<>>
  /\ multiplier_ = <<>>
  /\ array_ = <<>>
  /\ view = [E |-> 0, index_ |-> 0]
  /\ indices = <<>>
  /\ element = 0

\* MultiArray<T, D>::MultiArray(initializer) and, for D = 1,
\* MultiArray<T, 1>::MultiArray(initializer). extent_, multiplier_ and array_
\* are indexed from 0 as in the code; a MultiArray<T, 1> has no multiplier_.
MAConstruct ==
  /\ ma_pc = "construct"
  /\ LET D == rank
         zeros == [k \in 0 .. D - 1 |-> 0]
         extents == populate_extents(initializer, D, D, zeros)
         filled == populate_elements(initializer, D, <<>>)
     IN /\ extent_' = extents
        /\ multiplier_' = IF D = 1 THEN <<>>
                          ELSE Multipliers(extents, D - 2, 1,
                                           [zeros EXCEPT ![D - 1] = 1])
        /\ array_' = [k \in 0 .. Len(filled) - 1 |-> filled[k + 1]]
  /\ ma_pc' = "array"
  /\ UNCHANGED <<rank, initializer, view, indices, element>>
  /\ UNCHANGED not_ma

\* MultiArray<T, D>::operator[] (a view of dimension 2) and
\* MultiArray<T, 1>::operator[] (the element), with any index.
ArrayIndex ==
  /\ ma_pc = "array"
  /\ \E i \in MAIndices :
       /\ indices' = Append(indices, i)
       /\ IF i >= extent_[0]
            THEN ma_pc' = "out_of_range" /\ UNCHANGED <<view, element>>
          ELSE IF rank = 1
            THEN ma_pc' = "element" /\ element' = array_[i] /\ UNCHANGED view
          ELSE /\ ma_pc' = "view"
               /\ view' = [E |-> 2, index_ |-> i * multiplier_[0]]
               /\ UNCHANGED element
  /\ UNCHANGED <<rank, initializer, extent_, multiplier_, array_>>
  /\ UNCHANGED not_ma

\* The operator[] of a view without its test of i against the extent: it
\* reads array_ wherever the index leads.
ViewIndex_Unchecked ==
  /\ ma_pc = "view"
  /\ \E i \in MAIndices :
       /\ indices' = Append(indices, i)
       /\ IF view.E = rank
            THEN /\ ma_pc' = "element"
                 /\ element' = IF view.index_ + i \in DOMAIN array_
                                  THEN array_[view.index_ + i] ELSE 0
                 /\ UNCHANGED view
          ELSE /\ view' = [E |-> view.E + 1,
                           index_ |-> view.index_ + i * multiplier_[view.E - 1]]
               /\ UNCHANGED <<ma_pc, element>>
  /\ UNCHANGED <<rank, initializer, extent_, multiplier_, array_>>
  /\ UNCHANGED not_ma

\* MultiArrayView<T, D, E>::operator[] (a view of dimension E + 1) and
\* MultiArrayView<T, D, D>::operator[] (the element), with any index.
ViewIndex ==
  /\ ma_pc = "view"
  /\ \E i \in MAIndices :
       /\ indices' = Append(indices, i)
       /\ IF i >= extent_[view.E - 1]
            THEN ma_pc' = "out_of_range" /\ UNCHANGED <<view, element>>
          ELSE IF view.E = rank
            THEN /\ ma_pc' = "element"
                 /\ element' = array_[view.index_ + i]
                 /\ UNCHANGED view
          ELSE /\ view' = [E |-> view.E + 1,
                           index_ |-> view.index_ + i * multiplier_[view.E - 1]]
               /\ UNCHANGED <<ma_pc, element>>
  /\ UNCHANGED <<rank, initializer, extent_, multiplier_, array_>>
  /\ UNCHANGED not_ma

MANext ==
  \/ MAConstruct
  \/ ArrayIndex
  \/ ViewIndex

\* ------------------------------------------------------ specifications
\* The Hungarian solver: construction from any matrix, then execute().
Init == HungarianInit /\ KMPIdle /\ DLIdle /\ RBTIdle /\ MAIdle

Next == HungarianNext

Spec == Init /\ [][Next]_vars

\* The specification under which execute() is scheduled until it returns.
FairSpec == Spec /\ WF_vars(Next)

\* The Knuth-Morris-Pratt search: construction from any needle, then one
\* execute(haystack, index).
KMPSpecInit == HungarianIdle /\ KMPInit /\ DLIdle /\ RBTIdle /\ MAIdle

KMPSpec == KMPSpecInit /\ [][KMPNext]_vars

\* The Damerau-Levenshtein distance: construction from any cost tuple, then
\* one execute(source, target).
DLSpecInit == HungarianIdle /\ KMPIdle /\ DLInit /\ RBTIdle /\ MAIdle

DLSpec == DLSpecInit /\ [][DLNext]_vars

\* The red-black tree: construction with either node type, then any sequence
\* of insert and remove calls.
RBTSpecInit == HungarianIdle /\ KMPIdle /\ DLIdle /\ RBTInit /\ MAIdle

RBTSpec == RBTSpecInit /\ [][RBTNext]_vars

\* The multi-dimensional array: construction from an initializer list, then a
\* chain of operator[] calls.
MASpecInit == HungarianIdle /\ KMPIdle /\ DLIdle /\ RBTIdle /\ MAInit

MASpec == MASpecInit /\ [][MANext]_vars

\* ------------------------------------------------------------- the claims
Workers == 0 .. cost_matrix.rows - 1

Jobs == 0 .. cost_matrix.cols - 1

\* The sum of cost[w][result[w]] over the workers with result[w] # UNASSIGNED,
\* on the caller's matrix.
AssignedCost ==
  SetSum([w \in Workers |-> IF result[w] = UNASSIGNED THEN 0
                            ELSE cost_matrix.elem[w][result[w]]], Workers)

\* Every assignment of exactly k workers to pairwise distinct jobs.
Assignments(k) ==
  UNION { { f \in [S -> Jobs] : \A a, b \in S : a # b => f[a] # f[b] } :
          S \in { T \in SUBSET Workers : Cardinality(T) = k } }

\* The least total cost of an assignment of min(rows, cols) workers.
BruteForceMinimum ==
  LET k == IF cost_matrix.rows <= cost_matrix.cols THEN cost_matrix.rows
           ELSE cost_matrix.cols
  IN SetMin({ SetSum([w \in DOMAIN f |-> cost_matrix.elem[w][f[w]]], DOMAIN f) :
              f \in Assignments(k) })

NonEmptyInput == cost_matrix.rows >= 1 /\ cost_matrix.cols >= 1

\* C1: for every rows x cols cost matrix (rows, cols >= 1) the total cost of
\* the assigned pairs of the array execute() wrote equals the brute-force
\* minimum cost over all assignments of min(rows, cols) workers to distinct
\* jobs.
C1_MinimumCost ==
  (pc = "done" /\ NonEmptyInput) => AssignedCost = BruteForceMinimum

\* A run that needed at least two phases on a 3 x 3 matrix and ended with a
\* negative optimum.
C1_Witness ==
  /\ pc = "done" /\ rows_ = 3 /\ cols_ = 3 /\ phases >= 2
  /\ AssignedCost = BruteForceMinimum /\ AssignedCost < 0

\* C2: every entry of the result is UNASSIGNED or a job index in 0..cols-1,
\* and no job index occurs in two entries.
C2_PartialInjection ==
  pc = "done" =>
    /\ \A w \in Workers : result[w] = UNASSIGNED \/ result[w] \in Jobs
    /\ \A a, b \in Workers :
         (a # b /\ result[a] # UNASSIGNED) => result[a] # result[b]

\* More workers than jobs: a padding index was projected to UNASSIGNED and
\* two workers hold real jobs.
C2_Witness ==
  /\ pc = "done" /\ rows_ = 3 /\ cols_ = 2
  /\ \E a, b \in Workers :
       /\ result[a] = UNASSIGNED /\ match_job_by_worker_[a] = 2
       /\ result[b] = 1

\* C3: exactly max(0, rows - cols) entries of the result are UNASSIGNED, and
\* for rows = cols the result is a permutation of 0..cols-1.
C3_UnassignedCount ==
  pc = "done" =>
    /\ Cardinality({w \in Workers : result[w] = UNASSIGNED})
         = Max(0, cost_matrix.rows - cost_matrix.cols)
    /\ cost_matrix.rows = cost_matrix.cols => {result[w] : w \in Workers} = Jobs

\* A square matrix solved to a permutation other than the identity, and a
\* 3 x 1 matrix leaving two workers unassigned, are both checked; the
\* witness is the latter.
C3_Witness ==
  /\ pc = "done" /\ rows_ = 3 /\ cols_ = 1
  /\ Cardinality({w \in Workers : result[w] = UNASSIGNED}) = 2
  /\ result[2] = 0

\* The jobs committed by the current phase.
CommittedJobs == {j \in Indices : parent_worker_by_committed_job_[j] # UNASSIGNED}

\* C4: execute() terminates on every non-empty input: it starts at most
\* n = max(rows, cols) phases, a phase commits at most n jobs, and every
\* iteration of execute_phase's loop commits one job that was uncommitted.
C4_Terminates ==
  /\ [](phases <= dim_ /\ commits <= dim_)
  /\ [][(pc = "commit_job" /\ pc' # "error") =>
          /\ min_slack_job \notin CommittedJobs
          /\ CommittedJobs' = CommittedJobs \cup {min_slack_job}
          /\ commits' = commits + 1]_vars
  /\ (pc = "reduce") ~> (pc = "done")

\* A phase that committed every job of a 3 x 3 matrix before it found its
\* augmenting path.
C4_Witness ==
  /\ pc = "done" /\ dim_ = 3 /\ phases = 2 /\ commits = 3

\* C5: a Hungarian solver is never constructed from an empty matrix (no
\* rows, or rows without columns): the constructor signals an error and
\* execute() does not run.
C5_EmptyRejected ==
  (cost_matrix.rows = 0 \/ cost_matrix.cols = 0) => pc \in {"construct", "error"}

\* C6: on the 5 x 4 matrix of HungarianTestUnassignedWorker execute() writes
\* [1, UNASSIGNED, 2, 3, 0], of total cost 3.
C6_UnassignedWorker ==
  (pc = "done" /\ cost_matrix = TestUnassignedWorker) =>
    /\ result = [w \in 0 .. 4 |-> <<1, UNASSIGNED, 2, 3, 0>>[w + 1]]
    /\ AssignedCost = 3

C6_Witness ==
  /\ pc = "done" /\ cost_matrix = TestUnassignedWorker /\ executes = 1
  /\ result[1] = UNASSIGNED

\* C7: on the 4 x 5 matrix of HungarianTestUnassignedJob execute() writes
\* [1, 0, 3, 4], of total cost 3, job 2 being unused.
C7_UnassignedJob ==
  (pc = "done" /\ cost_matrix = TestUnassignedJob) =>
    /\ result = [w \in 0 .. 3 |-> <<1, 0, 3, 4>>[w + 1]]
    /\ AssignedCost = 3
    /\ \A w \in Workers : result[w] # 2

C7_Witness ==
  /\ pc = "done" /\ cost_matrix = TestUnassignedJob /\ executes = 1
  /\ result[3] = 4

\* The needle n occurs in h at position i.
Occurs(h, n, i) ==
  /\ i + Len(n) <= Len(h)
  /\ \A k \in 0 .. Len(n) - 1 : At(h, i + k) = At(n, k)

\* std::string::find: the least position >= from at which n occurs in h,
\* NOT_FOUND when there is none.
FirstOccurrence(h, n, from) ==
  LET at == {i \in from .. Len(h) : Occurs(h, n, i)}
  IN IF at = {} THEN NOT_FOUND ELSE SetMin(at)

\* C8: for every non-empty needle, haystack and start index, execute returns
\* the smallest i >= index at which the needle occurs in the haystack, and
\* NOT_FOUND when there is none.
C8_FirstOccurrence ==
  kmp_pc = "done" => kmp_result = FirstOccurrence(haystack, needle, index)

\* The strings one edit away from x, for each kind of edit. Strings grow to
\* length limit at most.
Deletions(x) ==
  {SubSeq(x, 1, k - 1) \o SubSeq(x, k + 1, Len(x)) : k \in 1 .. Len(x)}

Insertions(x, limit) ==
  IF Len(x) >= limit THEN {}
  ELSE {SubSeq(x, 1, k) \o <<c>> \o SubSeq(x, k + 1, Len(x)) :
          k \in 0 .. Len(x), c \in Alphabet}

Replacements(x) ==
  {[x EXCEPT ![k] = c] : k \in 1 .. Len(x), c \in Alphabet} \ {x}

Swaps(x) ==
  {[x EXCEPT ![k] = x[k + 1], ![k + 1] = x[k]] : k \in 1 .. Len(x) - 1} \ {x}

\* One round of relaxation of the distances d from the source: every edit is
\* the inverse of an edit (an insertion of a deletion, a replacement of a
\* replacement, a swap of a swap), so the strings with an edit into y are
\* those one inverse edit away from y.
Relax(d, limit) ==
  [y \in DOMAIN d |->
     SetMin({d[y]}
            \cup {d[x] + insert_cost_ : x \in Deletions(y)}
            \cup {d[x] + delete_cost_ : x \in Insertions(y, limit)}
            \cup {d[x] + replace_cost_ : x \in Replacements(y)}
            \cup {d[x] + swap_cost_ : x \in Swaps(y)})]

RECURSIVE Relaxed(_, _)
Relaxed(d, limit) ==
  LET e == Relax(d, limit) IN IF e = d THEN d ELSE Relaxed(e, limit)

\* The least total cost of a sequence of insertions, deletions, replacements
\* and swaps of adjacent characters that turns s into t, by exhaustive search
\* over the strings one longer than s and t at most.
MinimumEditCost(s, t) ==
  LET limit == Max(Len(s), Len(t)) + 1
      far == (MaxCost + 1) * (2 * limit + 2)
      start == [x \in Strings(0, limit) |-> IF x = s THEN 0 ELSE far]
  IN Relaxed(start, limit)[t]

\* C9: for every accepted cost tuple and all source and target strings,
\* execute returns the minimum total cost of a sequence of insertions,
\* deletions, replacements and adjacent swaps turning source into target.
C9_MinimumEditCost ==
  dl_pc = "done" => dl_result = MinimumEditCost(source, target)

\* C10: the constructor raises an error exactly when
\* 2 * swap_cost < insert_cost + delete_cost.
C10_ConstructorRejects ==
  dl_pc # "construct" =>
    (dl_pc = "error" <=> 2 * costs.swap_cost < costs.insert_cost + costs.delete_cost)

\* The tuple of DamerauLevenshteinInvalidCosts was rejected.
C10_Witness ==
  /\ dl_pc = "error"
  /\ costs = [insert_cost |-> 1, delete_cost |-> 1, replace_cost |-> 1, swap_cost |-> 0]

\* The tree and the master set agree: contains(v) exactly for the values of
\* the set, size() is the set's cardinality, and no call has left the tree
\* in an undefined state.
SetAgreement ==
  /\ rbt_pc = "ready"
  /\ size_ = Cardinality(master)
  /\ \A v \in Values : contains(CurrentTree, v) <=> v \in master

\* One call: it returns true exactly if it changed the master set (an insert
\* of an absent value, a remove of a present one), and a call that returns
\* false leaves nodes, root and size as they were.
SetStep ==
  /\ rbt_pc' = "ready"
  /\ rbt_result' = (master' # master)
  /\ ~rbt_result' => heap' = heap /\ root_' = root_ /\ size_' = size_

\* C11: after any sequence of insert and remove calls the tree behaves as the
\* set run beside it: insert(v) returns true iff v was absent, remove(v)
\* returns true iff v was present, contains(v) holds iff v is in the set,
\* size() is the set's cardinality, and a rejected call leaves the tree
\* unchanged.
C11_BehavesAsSet ==
  /\ [](rbt_pc # "idle" => SetAgreement)
  /\ [][rbt_pc # "idle" => SetStep]_vars

\* A rejected call on a tree of three or more values from which a value was
\* removed earlier (an address below an allocated one is free).
C11_Witness ==
  /\ rbt_pc = "ready"
  /\ ~rbt_result
  /\ size_ >= 3
  /\ \E a \in DOMAIN heap : a > 1 /\ a - 1 \notin DOMAIN heap

\* Parent and child pointers agree: the root has no parent, every child
\* points back to its parent, every other node is a child of its parent, and
\* no pointer leaves the allocated nodes.
PointersConsistent(t) ==
  LET N == DOMAIN t.nodes
  IN /\ t.root = NIL <=> N = {}
     /\ t.root # NIL => t.root \in N /\ Parent(t, t.root) = NIL
     /\ \A n \in N :
          /\ Left(t, n) # NIL => Left(t, n) \in N /\ Parent(t, Left(t, n)) = n
          /\ Right(t, n) # NIL => Right(t, n) \in N /\ Parent(t, Right(t, n)) = n
          /\ Left(t, n) # NIL => Left(t, n) # Right(t, n)
          /\ Parent(t, n) = NIL => n = t.root
          /\ Parent(t, n) # NIL =>
               /\ Parent(t, n) \in N
               /\ n \in {Left(t, Parent(t, n)), Right(t, Parent(t, n))}

RECURSIVE Subtree(_, _)
\* The nodes of the subtree rooted at n.
Subtree(t, n) ==
  IF n = NIL THEN {}
  ELSE {n} \cup Subtree(t, Left(t, n)) \cup Subtree(t, Right(t, n))

\* Binary-search order under compare, over all allocated nodes.
SearchOrder(t) ==
  /\ Subtree(t, t.root) = DOMAIN t.nodes
  /\ \A n \in DOMAIN t.nodes :
       /\ \A m \in Subtree(t, Left(t, n)) : Compare(Value(t, m), Value(t, n)) < 0
       /\ \A m \in Subtree(t, Right(t, n)) : Compare(Value(t, m), Value(t, n)) > 0

\* No RED node has a RED child.
NoRedRed(t) ==
  \A n \in DOMAIN t.nodes :
    Color(t, n) = "RED" =>
      Color(t, Left(t, n)) = "BLACK" /\ Color(t, Right(t, n)) = "BLACK"

RECURSIVE BlackHeight(_, _)
\* The number of BLACK nodes on every path from n down to a null leaf, or -1
\* if two such paths differ.
BlackHeight(t, n) ==
  IF n = NIL THEN 0
  ELSE LET l == BlackHeight(t, Left(t, n))
           r == BlackHeight(t, Right(t, n))
       IN IF l < 0 \/ r < 0 \/ l # r THEN 0 - 1
          ELSE l + (IF Color(t, n) = "BLACK" THEN 1 ELSE 0)

RECURSIVE Height(_, _)
\* The number of nodes on the longest path from n down to a null leaf.
Height(t, n) ==
  IF n = NIL THEN 0
  ELSE LET l == Height(t, Left(t, n))
           r == Height(t, Right(t, n))
       IN 1 + (IF l > r THEN l ELSE r)

\* C12: after any sequence of insert and remove calls the tree satisfies the
\* red-black invariants: parent and child pointers are consistent, the values
\* are in binary-search order under compare, the root is BLACK, no RED node
\* has a RED child, and every path from the root to a null leaf holds the same
\* number of BLACK nodes.
C12_RedBlackInvariants ==
  rbt_pc # "idle" =>
    /\ rbt_pc = "ready"
    /\ PointersConsistent(CurrentTree)
    /\ SearchOrder(CurrentTree)
    /\ Color(CurrentTree, root_) = "BLACK"
    /\ NoRedRed(CurrentTree)
    /\ BlackHeight(CurrentTree, root_) >= 0

\* A tree of height three or more with a RED node, left by a successful call
\* after a value was removed (an address below an allocated one is free).
C12_Witness ==
  /\ rbt_pc = "ready"
  /\ rbt_result
  /\ size_ >= 4
  /\ Height(CurrentTree, root_) >= 3
  /\ \E n \in DOMAIN heap : heap[n].color = "RED"
  /\ \E a \in DOMAIN heap : a > 2 /\ a - 2 \notin DOMAIN heap

\* The node with the least value greater than n's, under compare; NIL if n
\* holds the maximum.
NextLarger(t, n) ==
  LET larger == {m \in DOMAIN t.nodes : Compare(Value(t, m), Value(t, n)) > 0}
  IN IF larger = {} THEN NIL
     ELSE CHOOSE m \in larger :
            \A k \in larger : Compare(Value(t, m), Value(t, k)) <= 0

\* The node with the greatest value less than n's; NIL if n holds the minimum.
NextSmaller(t, n) ==
  LET smaller == {m \in DOMAIN t.nodes : Compare(Value(t, m), Value(t, n)) < 0}
  IN IF smaller = {} THEN NIL
     ELSE CHOOSE m \in smaller :
            \A k \in smaller : Compare(Value(t, m), Value(t, k)) >= 0

\* C13: after any sequence of insert and remove calls, for every node n of
\* the tree successor(n) is the node with the smallest value larger than n's
\* (null for the maximum) and predecessor(n) the node with the largest value
\* smaller than n's (null for the minimum), for Node trees (the tree walk) and
\* for LinkedNode trees (the maintained links).
C13_SuccessorPredecessor ==
  rbt_pc # "idle" =>
    /\ rbt_pc = "ready"
    /\ \A n \in DOMAIN heap :
         /\ successor(CurrentTree, linked, n) = NextLarger(CurrentTree, n)
         /\ predecessor(CurrentTree, linked, n) = NextSmaller(CurrentTree, n)

\* A LinkedNode tree of four or more values after a successful remove, with
\* a node whose successor link does not lead to its right child.
C13_Witness ==
  /\ rbt_pc = "ready"
  /\ linked
  /\ rbt_result
  /\ size_ >= 4
  /\ \E a \in DOMAIN heap : a > 1 /\ a - 1 \notin DOMAIN heap
  /\ \E n \in DOMAIN heap :
       heap[n].successor # NIL /\ heap[n].successor # heap[n].right

RECURSIVE ListAt(_, _)
\* The list, or the element, of a nested initializer list that the index
\* tuple path leads to.
ListAt(list, path) ==
  IF path = <<>> THEN list ELSE ListAt(list[Head(path) + 1], Tail(path))

\* C14: an index at or beyond the extent of the dimension it indexes raises
\* an error instead of returning a view or an element, in every dimension,
\* and an index tuple that is in range in every dimension returns the element
\* at that position of the initializer list.
C14_BoundsChecked ==
  ma_pc \notin {"idle", "construct"} /\ indices # <<>> =>
    LET n == Len(indices)
        list == ListAt(initializer, SubSeq(indices, 1, n - 1))
    IN IF indices[n] >= Len(list) THEN ma_pc = "out_of_range"
       ELSE IF n = rank
         THEN ma_pc = "element" /\ element = list[indices[n] + 1]
       ELSE ma_pc = "view"

\* two[0][2] on MultiArray<int, 2> two = {{1, 2}, {3, 4}} has raised
\* std::out_of_range.
C14_Witness ==
  /\ ma_pc = "out_of_range"
  /\ rank = 2
  /\ initializer = <<<<1, 2>>, <<3, 4>>>>
  /\ indices = <<0, 2>>

\* The positions of execute(): from compute_initial_feasible_solution's
\* return to the return of execute().
AfterInitialSolution ==
  {"greedy_match", "fetch_unmatched_worker", "initialize_phase", "select",
   "update_labeling", "commit_job", "augment", "commit_worker", "write_result",
   "done"}

\* C15: once compute_initial_feasible_solution has returned, after every
\* completed step of execute, cost_matrix[w][j] - label_by_worker[w] -
\* label_by_job[j] >= 0 for all workers w and jobs j of the padded matrix.
C15_DualFeasible ==
  pc \in AfterInitialSolution => \A w, j \in Indices : Slack(w, j) >= 0

\* Every matched worker's job names that worker.
JobsNameTheirWorkers ==
  \A w \in Indices :
    match_job_by_worker_[w] # UNASSIGNED =>
      match_worker_by_job_[match_job_by_worker_[w]] = w

\* Job j names a worker that is matched to another job, or to none.
Stale(j) ==
  /\ match_worker_by_job_[j] # UNASSIGNED
  /\ match_job_by_worker_[match_worker_by_job_[j]] # j

\* The two matching vectors are mutual inverses on their non-UNASSIGNED
\* entries.
MutualInverses ==
  \A w, j \in Indices :
    match_job_by_worker_[w] = j <=> match_worker_by_job_[j] = w

\* The positions inside execute().
DuringExecute ==
  {"reduce", "compute_initial_feasible_solution", "greedy_match",
   "fetch_unmatched_worker", "initialize_phase", "select", "update_labeling",
   "commit_job", "augment", "commit_worker", "write_result"}

\* C16, as stated: at all times during execute, between the match() calls of
\* an augmenting-path flip included, the two matching vectors are mutual
\* inverses on their non-UNASSIGNED entries.
C16_AlwaysInverse ==
  pc \in DuringExecute => MutualInverses

\* C16, amended: at all times during execute every matched worker's job
\* names that worker, and the vectors are mutual inverses except between the
\* match() calls of an augmenting-path flip, where the one job that is
\* re-matched next (committed_job) still names the worker it was taken from.
C16_InverseExceptMidFlip ==
  pc \in DuringExecute =>
    /\ JobsNameTheirWorkers
    /\ \A j \in Indices : Stale(j) => pc = "augment" /\ j = committed_job

\* Between two match() calls of a flip: committed_job still names the worker
\* that the last call matched to another job.
C16_Witness ==
  /\ pc = "augment"
  /\ committed_job \in Indices
  /\ Stale(committed_job)

\* C17: at every phase boundary (after construction, after greedy_match has
\* returned, after each execute_phase has returned) the matching vectors are
\* mutual inverses on their non-UNASSIGNED entries, so that no two workers
\* are matched to one job and no two jobs to one worker.
C17_PhaseBoundaryBijection ==
  pc \in {"constructed", "fetch_unmatched_worker"} =>
    /\ MutualInverses
    /\ \A a, b \in Indices :
         a # b =>
           /\ match_job_by_worker_[a] = UNASSIGNED
              \/ match_job_by_worker_[a] # match_job_by_worker_[b]
           /\ match_worker_by_job_[a] = UNASSIGNED
              \/ match_worker_by_job_[a] # match_worker_by_job_[b]

\* The number of matched workers.
MatchedPairs ==
  Cardinality({w \in Indices : match_job_by_worker_[w] # UNASSIGNED})

\* execute_phase has returned for the second time in one execute, with at
\* least two pairs matched.
C17_Witness ==
  /\ pc = "fetch_unmatched_worker"
  /\ phases >= 2
  /\ MatchedPairs >= 2

\* The positions of one phase: initialize_phase(w), then execute_phase().
InPhase ==
  {"initialize_phase", "select", "update_labeling", "commit_job", "augment",
   "commit_worker"}

\* A step of a phase: the step that completes the phase (the last match()
\* call of the flip, on which execute_phase returns) adds one matched pair,
\* every other step of the phase leaves the number of matched pairs alone.
PhaseStep ==
  pc \in InPhase =>
    IF pc = "augment" /\ pc' = "fetch_unmatched_worker"
      THEN MatchedPairs' = MatchedPairs + 1
      ELSE MatchedPairs' = MatchedPairs

\* C18: every completed phase increases the number of matched pairs by
\* exactly one compared with the phase's start; within a phase the number
\* never decreases and never grows by more than one.
C18_PhaseAddsOnePair == [][PhaseStep]_vars

\* A second phase of one execute has completed after committing two or more
\* jobs, its flip re-matching a worker that was matched before.
C18_Witness ==
  /\ pc = "fetch_unmatched_worker"
  /\ phases >= 2
  /\ commits >= 2
  /\ MatchedPairs >= 2

\* The least slack of job j against the committed workers, under the
\* current labels.
CommittedMinSlack(j) ==
  SetMin({Slack(w, j) : w \in {v \in Indices : committed_workers_[v]}})

\* C19: after initialize_phase and after each complete iteration of
\* execute_phase's loop (the iteration on which execute_phase returns
\* included), for every uncommitted job j, min_slack_by_job[j] is
\* the minimum over the committed workers w of cost_matrix[w][j] -
\* label_by_worker[w] - label_by_job[j], and min_slack_worker_by_job[j] is a
\* committed worker attaining it.
C19_MinSlackMaintained ==
  (pc = "select" \/ (pc = "fetch_unmatched_worker" /\ phases >= 1)) =>
    \A j \in Indices :
      parent_worker_by_committed_job_[j] = UNASSIGNED =>
        /\ min_slack_by_job_[j] = CommittedMinSlack(j)
        /\ min_slack_worker_by_job_[j] \in Indices
        /\ committed_workers_[min_slack_worker_by_job_[j]]
        /\ Slack(min_slack_worker_by_job_[j], j) = min_slack_by_job_[j]

\* The head of an iteration after update_labeling has raised a label and a
\* second worker was committed, with a job still uncommitted.
C19_Witness ==
  /\ pc = "select"
  /\ Cardinality({w \in Indices : committed_workers_[w]}) >= 2
  /\ \E w \in Indices : label_by_worker_[w] > 0
  /\ \E j \in Indices : parent_worker_by_committed_job_[j] = UNASSIGNED

\* C20: when compute_initial_feasible_solution returns, label_by_worker[w]
\* is 0 for every worker w and label_by_job[j] is the minimum over w of
\* cost_matrix[w][j] for every job j of the padded matrix.
C20_InitialLabels ==
  (pc = "greedy_match" /\ w_greedy = 0 /\ j_greedy = 0) =>
    /\ \A w \in Indices : label_by_worker_[w] = 0
    /\ \A j \in Indices :
         label_by_job_[j] = SetMin({cost_matrix_[w][j] : w \in Indices})

\* The least entry of row w of the n x n matrix m.
RowMinimum(m, w) ==
  CHOOSE x \in {m[w][j] : j \in Indices} : \A j \in Indices : x <= m[w][j]

\* The least entry of column j of the n x n matrix m.
ColumnMinimum(m, j) ==
  CHOOSE x \in {m[w][j] : w \in Indices} : \A w \in Indices : x <= m[w][j]

\* m after every row's minimum was subtracted from the row.
RowReduced(m) ==
  [w \in Indices |-> [j \in Indices |-> m[w][j] - RowMinimum(m, w)]]

\* m after every column's minimum was subtracted from the column.
ColumnReduced(m) ==
  [w \in Indices |-> [j \in Indices |-> m[w][j] - ColumnMinimum(m, j)]]

\* The caller's matrix padded with zeros to n x n, as the constructor
\* stores it.
Padded ==
  [w \in Indices |->
    [j \in Indices |-> IF w < rows_ /\ j < cols_ THEN cost_matrix.elem[w][j] ELSE 0]]

\* C21: reduce() subtracts from every row of the padded n x n matrix that
\* row's minimum and then from every column that column's minimum, computed
\* on the row-reduced matrix; afterwards every entry is >= 0 and every row
\* and every column contains at least one 0 entry.
C21_Reduce ==
  /\ [](pc = "compute_initial_feasible_solution" =>
          /\ \A w, j \in Indices : cost_matrix_[w][j] >= 0
          /\ \A w \in Indices : \E j \in Indices : cost_matrix_[w][j] = 0
          /\ \A j \in Indices : \E w \in Indices : cost_matrix_[w][j] = 0)
  /\ [][pc = "reduce" =>
          cost_matrix_' = ColumnReduced(RowReduced(cost_matrix_))]_vars

\* reduce() has returned in the first execute() on a 3 x 3 matrix with a row
\* of non-zero minimum and, once its rows were reduced, a column of non-zero
\* minimum.
C21_Witness ==
  /\ pc = "compute_initial_feasible_solution"
  /\ executes = 1 /\ rows_ = 3 /\ cols_ = 3
  /\ \E w \in Indices : RowMinimum(Padded, w) # 0
  /\ \E j \in Indices : ColumnMinimum(RowReduced(Padded), j) > 0
  /\ cost_matrix_ = ColumnReduced(RowReduced(Padded))

\* Worker w and job j are both unmatched and their edge has zero slack.
FreeZeroSlackPair(w, j) ==
  /\ match_job_by_worker_[w] = UNASSIGNED
  /\ match_worker_by_job_[j] = UNASSIGNED
  /\ Slack(w, j) = 0

\* An iteration of greedy_match's loop writes the matching vectors only at
\* the pair it scans, and only if that pair is free and of zero slack.
GreedyScan ==
  pc = "greedy_match" =>
    /\ \A w \in Indices :
         match_job_by_worker_'[w] # match_job_by_worker_[w] =>
           /\ w = w_greedy
           /\ match_job_by_worker_'[w] = j_greedy
           /\ match_worker_by_job_'[j_greedy] = w
           /\ FreeZeroSlackPair(w_greedy, j_greedy)
    /\ \A j \in Indices :
         match_worker_by_job_'[j] # match_worker_by_job_[j] =>
           /\ j = j_greedy
           /\ match_worker_by_job_'[j] = w_greedy
           /\ match_job_by_worker_'[w_greedy] = j
           /\ FreeZeroSlackPair(w_greedy, j_greedy)

\* C22: greedy_match matches a pair (w, j) only if, at the moment it is
\* scanned, worker w and job j are both unmatched and cost_matrix[w][j] -
\* label_by_worker[w] - label_by_job[j] = 0; when it returns, no pair (w, j)
\* with both w and j unmatched has zero slack.
C22_GreedyMatch ==
  /\ [][GreedyScan]_vars
  /\ []((pc = "fetch_unmatched_worker" /\ phases = 0) =>
          \A w, j \in Indices : ~FreeZeroSlackPair(w, j))

\* greedy_match has returned in the first execute() with two pairs matched
\* and a worker and a job left unmatched.
C22_Witness ==
  /\ pc = "fetch_unmatched_worker" /\ phases = 0 /\ executes = 1
  /\ MatchedPairs = 2
  /\ \E w, j \in Indices :
       /\ match_job_by_worker_[w] = UNASSIGNED
       /\ match_worker_by_job_[j] = UNASSIGNED
       /\ Slack(w, j) > 0

\* The jobs the current phase has not committed.
UncommittedJobs ==
  {j \in Indices : parent_worker_by_committed_job_[j] = UNASSIGNED}

\* The uncommitted jobs whose min_slack_by_job value is the least among the
\* uncommitted jobs.
LeastSlackJobs ==
  {j \in UncommittedJobs :
     \A k \in UncommittedJobs : min_slack_by_job_[j] <= min_slack_by_job_[k]}

\* C23: in each iteration of execute_phase the job selected for commitment
\* is the lowest-indexed job among the uncommitted jobs whose
\* min_slack_by_job value equals the minimum over all uncommitted jobs.
C23_SelectedJob ==
  (pc \in {"update_labeling", "commit_job"} /\ UncommittedJobs # {}) =>
    /\ min_slack_job \in LeastSlackJobs
    /\ \A j \in LeastSlackJobs : min_slack_job <= j
    /\ min_slack_worker = min_slack_worker_by_job_[min_slack_job]
    /\ pc = "update_labeling" => min_slack_value = min_slack_by_job_[min_slack_job]

\* A job was selected among uncommitted jobs of which two or more tie for
\* the least min-slack while an uncommitted job of lower index has a larger
\* one.
C23_Witness ==
  /\ pc = "update_labeling"
  /\ Cardinality(LeastSlackJobs) >= 2
  /\ \E j \in UncommittedJobs \ LeastSlackJobs : j < min_slack_job
  /\ \E j \in LeastSlackJobs : j > min_slack_job

\* Worker w is committed and its edge to job j has zero slack.
CommittedZeroSlackEdge(w, j) ==
  /\ w \in Indices
  /\ j \in Indices
  /\ committed_workers_[w]
  /\ Slack(w, j) = 0

\* C24: every job is committed over a zero-slack edge: at the moment
\* execute_phase sets parent_worker_by_committed_job[j*] = w (after
\* update_labeling has been applied when the minimum slack was > 0), w is a
\* committed worker and cost_matrix[w][j*] - label_by_worker[w] -
\* label_by_job[j*] = 0; the edges of the jobs committed earlier in the phase
\* keep zero slack while the phase runs.
C24_CommittedOverZeroSlack ==
  /\ pc = "commit_job" => CommittedZeroSlackEdge(min_slack_worker, min_slack_job)
  /\ pc \in {"select", "update_labeling", "commit_job", "commit_worker", "augment"} =>
       \A j \in CommittedJobs :
         CommittedZeroSlackEdge(parent_worker_by_committed_job_[j], j)

\* A job is about to be committed after update_labeling has raised the
\* labels by a positive minimum slack, over an edge from a worker other than
\* the root of the phase.
C24_Witness ==
  /\ pc = "commit_job"
  /\ min_slack_value > 0
  /\ min_slack_worker \in Indices
  /\ min_slack_worker # w_execute
  /\ CommittedJobs # {}
  /\ CommittedZeroSlackEdge(min_slack_worker, min_slack_job)

\* A step leaves the caller's matrix alone, and the solver's matrix too
\* unless it is the constructor's copy or reduce().
MatrixFrame ==
  /\ cost_matrix' = cost_matrix
  /\ pc \notin {"construct", "reduce"} => cost_matrix_' = cost_matrix_

\* C25: the solver's cost matrix is modified only by reduce():
\* compute_initial_feasible_solution, greedy_match, initialize_phase,
\* update_labeling and execute_phase leave every entry of cost_matrix_
\* unchanged, and the caller's input matrix is never modified by construction
\* or execute.
C25_MatrixFrame == [][MatrixFrame]_vars

\* The first execute() has returned after a phase in which update_labeling
\* raised a label: the solver's matrix is the reduced padded input, which
\* differs from the padded input.
C25_Witness ==
  /\ pc = "done" /\ executes = 1 /\ phases >= 1
  /\ \E w \in Indices : label_by_worker_[w] > 0
  /\ cost_matrix_ = ColumnReduced(RowReduced(Padded))
  /\ cost_matrix_ # Padded

\* Every matched pair has zero slack under the current labels.
MatchedPairsTight ==
  \A w \in Indices :
    match_job_by_worker_[w] # UNASSIGNED => Slack(w, match_job_by_worker_[w]) = 0

\* C26: after greedy_match returns and after every completed phase, every
\* matched pair (w, j) with match_job_by_worker[w] = j has zero slack under
\* the current labels: cost_matrix[w][j] = label_by_worker[w] +
\* label_by_job[j].
C26_ComplementarySlackness ==
  pc = "fetch_unmatched_worker" => MatchedPairsTight

\* What the positions of execute_phase's loop rely on when they index the
\* arrays.
ValidIndices ==
  /\ pc = "select" =>
       \E j \in UncommittedJobs : min_slack_by_job_[j] < POSITIVE_INFINITY
  /\ pc \in {"update_labeling", "commit_job", "commit_worker"} =>
       /\ min_slack_job \in Indices
       /\ min_slack_worker \in Indices
       /\ min_slack_value < POSITIVE_INFINITY
  /\ pc = "commit_worker" => match_worker_by_job_[min_slack_job] \in Indices
  /\ pc = "augment" => committed_job \in Indices /\ parent_worker \in Indices
  /\ pc = "error" => rows_ = 0

\* The match() call on which the augmenting-path walk ends is the one of the
\* phase's root worker.
WalkEndsAtRoot ==
  (pc = "augment" /\ pc' = "fetch_unmatched_worker") => parent_worker = w_execute

\* C27: in every iteration of the execute_phase loop at least one job is
\* still uncommitted and has a finite min-slack value, so that min_slack_job
\* and min_slack_worker are valid indices (< n, never UNASSIGNED) when they
\* index parent_worker_by_committed_job and match_worker_by_job; every
\* parent_worker read while walking the augmenting path is a valid worker
\* index and the walk ends at the phase root.
C27_ValidIndices == []ValidIndices /\ [][WalkEndsAtRoot]_vars

\* The augmenting-path walk has re-matched a worker and has arrived at the
\* root of the phase, in a phase that committed two jobs or more.
C27_Witness ==
  /\ pc = "augment"
  /\ commits >= 2
  /\ committed_job \in Indices
  /\ committed_job # min_slack_job
  /\ parent_worker = w_execute
  /\ match_job_by_worker_[parent_worker] = UNASSIGNED

\* The workers that have a job, and the jobs that have a worker.
MatchedWorkers == {w \in Indices : match_job_by_worker_[w] # UNASSIGNED}

MatchedJobs == {j \in Indices : match_worker_by_job_[j] # UNASSIGNED}

\* A step of the phase rooted at w_execute. Up to the selection of the
\* unmatched job min_slack_job the matched workers and jobs stay as they
\* were at the phase's start, the root unmatched. The first match() call of
\* the flip adds min_slack_job, unmatched until then, to the matched jobs and
\* the later calls re-match jobs that were matched; the call on which the
\* phase ends adds the root to the matched workers and the earlier calls
\* re-match workers that were matched.
PhaseMatching ==
  pc \in InPhase =>
    /\ w_execute \notin MatchedWorkers
    /\ MatchedWorkers \subseteq MatchedWorkers'
    /\ MatchedJobs \subseteq MatchedJobs'
    /\ IF pc = "augment"
         THEN /\ MatchedJobs' = MatchedJobs \cup {min_slack_job}
              /\ MatchedWorkers' =
                   IF pc' = "fetch_unmatched_worker"
                     THEN MatchedWorkers \cup {w_execute}
                     ELSE MatchedWorkers
         ELSE /\ MatchedJobs' = MatchedJobs
              /\ MatchedWorkers' = MatchedWorkers
    /\ (pc = "commit_job" /\ pc' = "augment") => min_slack_job \notin MatchedJobs

\* C28: a phase rooted at unmatched worker w0 that ends by selecting
\* unmatched job j* leaves every previously matched worker and every
\* previously matched job matched (possibly to a different partner); the set
\* of matched workers grows by exactly {w0} and the set of matched jobs by
\* exactly {j*}.
C28_PhaseGrowsMatching ==
  /\ [][PhaseMatching]_vars
  /\ []((pc = "fetch_unmatched_worker" /\ phases >= 1) =>
          /\ w_execute \in MatchedWorkers
          /\ min_slack_job \in MatchedJobs)

\* A phase has ended whose flip gave a previously matched worker another
\* job: the root holds a job that was matched before the phase, the job the
\* phase selected holds a worker other than the root.
C28_Witness ==
  /\ pc = "fetch_unmatched_worker" /\ phases >= 1 /\ commits >= 2
  /\ w_execute \in MatchedWorkers
  /\ match_job_by_worker_[w_execute] # min_slack_job
  /\ min_slack_job \in MatchedJobs
  /\ match_worker_by_job_[min_slack_job] # w_execute

\* A step of, or into, a call of execute() after the first one on the same
\* instance: no phase is started, the solver's matrix and the matching
\* vectors stay as they are, and the result array is written as before.
LaterExecuteStep ==
  executes' >= 2 =>
    /\ pc' \notin InPhase
    /\ cost_matrix_' = cost_matrix_
    /\ match_job_by_worker_' = match_job_by_worker_
    /\ match_worker_by_job_' = match_worker_by_job_
    /\ result' = result

\* C29: calling execute a second time on the same Hungarian instance (no
\* reconstruction) terminates, runs no further phase, leaves cost_matrix_ and
\* both matching vectors unchanged, and writes the same result array as the
\* first call.
C29_SecondExecute ==
  /\ [][LaterExecuteStep]_vars
  /\ (executes >= 2 /\ pc = "reduce") ~> (executes >= 2 /\ pc = "done")

\* The second execute() has returned on an instance whose first execute()
\* raised a label in a phase and left a worker of a 3 x 2 matrix unassigned.
C29_Witness ==
  /\ pc = "done" /\ executes = 2 /\ phases = 0
  /\ rows_ = 3 /\ cols_ = 2
  /\ \E w \in Indices : label_by_worker_[w] > 0
  /\ result = ProjectResult(match_job_by_worker_, rows_, cols_)
  /\ \E w \in Workers : result[w] = UNASSIGNED

\* The first s characters of the needle are the s characters of the haystack
\* before position i.
PrefixIsSuffix(s, i) ==
  /\ index + s <= i
  /\ \A k \in 0 .. s - 1 :
       /\ i - s + k < Len(haystack)
       /\ At(needle, k) = At(haystack, i - s + k)

\* C30: whenever execute(haystack, index) returns r # NOT_FOUND for a
\* non-empty needle, r >= index, r + |needle| <= |haystack| and
\* haystack[r .. r + |needle| - 1] = needle; after each processed haystack
\* character the automaton state s satisfies needle[0 .. s - 1] = the last s
\* characters processed.
C30_SearchSound ==
  /\ kmp_pc = "loop" =>
       /\ state < Len(needle)
       /\ PrefixIsSuffix(state, i_execute)
  /\ (kmp_pc = "done" /\ kmp_result # NOT_FOUND) =>
       /\ kmp_result >= index
       /\ kmp_result + Len(needle) <= Len(haystack)
       /\ Occurs(haystack, needle, kmp_result)
       /\ state = Len(needle)
       /\ PrefixIsSuffix(state, i_execute + 1)

\* "aab" was found at position 1 of "aaab": the automaton fell back from
\* state 2 to state 1 on the third character and went on to a match.
C30_Witness ==
  /\ kmp_pc = "done"
  /\ needle = <<"a", "a", "b">>
  /\ haystack = <<"a", "a", "a", "b">>
  /\ index = 0
  /\ kmp_result = 1

====
